---- MODULE Spec2Model ----
(***************************************************************************)
(* A model of the ordering and delivery engine of tidb-binlog: the Pump's  *)
(* segmented binlog storage (binlogger, decoder), the Pump server's write  *)
(* path and heartbeat, the Drainer's puller and k-way merger, and the      *)
(* arbiter server's checkpoint loop.  Each subsystem has its own           *)
(* specification over the shared variables; the variables of the other     *)
(* subsystems stay at their initial values.                                *)
(***************************************************************************)
EXTENDS Integers, Sequences, FiniteSets, TLC

VARIABLES
    xmaster,   \* the master log of the proxy: its files, each the payloads framed in it
    xreplicate,   \* the replicate log
    xlatest,   \* latestFilePos, the one variable both binloggers set
    xcp,   \* p.cp: the saved position
    xpos,   \* the local pos of sync
    xctx,   \* p.ctx: nil, live, done
    xspc,   \* where sync is: new, select, walk, exited, panic
    xcpc,   \* where Close is: idle, loop, break, wait, returned
    xwrites,   \* WriteTail calls made on the proxy
    calls,   \* history: the last of AddSource and RemoveSource called for each source
    dispatcher,   \* s.dispatcher: the cluster ids that have a binlogger
    muWriter,   \* the holder of the write lock of the server mutex, 0 for none
    muReaders,   \* holders of the read lock
    dwpc,   \* where each WriteBinlog call is: idle, locked, unlock
    dwcid,   \* the cluster of each WriteBinlog call
    drpc,   \* where PullBinlogs is: idle, rlocked, done
    dhpc,   \* where the heartbeat is: wait, range, locked
    dhTodo,   \* the keys the range of the heartbeat has still to produce
    dhCid,   \* the key the heartbeat is handling
    dgpc,   \* where the GC loop is: sleep, range
    dgTodo,   \* the keys the range of the GC loop has still to produce
    dPasses,   \* ranges begun so far
    dFatal,   \* the runtime has stopped the process
    arrived,   \* history: a WriteBinlog call arrived since the last tick
    sbSource,   \* the messages on the reader channel Messages()
    sbSourceClosed,   \* the reader channel is closed
    sbNext,   \* the next message of the kafka reader
    sbpc,   \* where syncBinlogs is: range, send, select, done
    sbMsg,   \* the message syncBinlogs is handling
    sbRecv,   \* history: the messages syncBinlogs received
    sbSent,   \* history: the txns syncBinlogs sent on the loader input
    sbInput,   \* the loader input channel
    sbLdClosed,   \* ld.Close() was called
    sbCtxDone,   \* syncCtx is cancelled
    sbLoad,   \* load.Run: running, failed, returned
    sbRet,   \* what syncBinlogs returned
    tdir,   \* the log of the TestRead scenario: suffix -> bytes of the segment file
    tframes,   \* history: the records appended in the scenario, with their positions
    tout,   \* what the last ReadFrom of the scenario returned
    schState,   \* the snapshot: the schemas and the tables by id
    schErr,   \* the error the replay stopped with
    schJobs,   \* jobs replayed
    schLast,   \* history: per table id the last job, not cancelled, that affected it
    pbpc,   \* "none" before newPb, then "open"
    pbFile,   \* the checkpoint file: absent, or its record
    pbCommitTS,   \* PbCheckPoint.CommitTS
    pbInitial,   \* PbCheckPoint.initialCommitTS
    pbClosed,   \* PbCheckPoint.closed
    pbRet,   \* the last call on the PbCheckPoint and its error
    pbLast,   \* history: the last Save that succeeded, and whether a Save failed
    cpRow,   \* the row of the arbiter checkpoint table
    cpRet,   \* the last call on the arbiter Checkpoint and what it returned
    cpLast,   \* history: the arguments of the last Save on the arbiter Checkpoint
    srcPause,   \* MergeSource.Pause of each source, as the caller of NewMerger set it
    syncPc,   \* per caller of Sync: "idle" or "select"
    syncRet,   \* per caller: what its last Sync returned
    syncAt,   \* history: whether the call reached its select before or after Run returned
    nSyncs,   \* Sync calls made
    loaderPc,   \* the loader Run: "running" or "returned"
    runRet,   \* what Run returned
    loaderTxns,   \* txns the loader has received and not yet reported
    loaderSuccClosed,   \* whether the loader closed Successes
    inputClosed,   \* whether the loader input was closed
    succPc,   \* the first goroutine of runLoader: "range", "cb", "done"
    callbacks,   \* callbacks made
    runGoPc,   \* the second goroutine of runLoader: "run", "wait", "done"
    loaderErr,   \* mysqlSyncer.loaderErr
    loaderQuit,   \* mysqlSyncer.loaderQuit: "open" or "closed"
    closePc,   \* Close: "none", "wait", "returned"
    closeRet,   \* what Close returned
    dir,        \* binlogger under a small SegmentSizeBytes: suffix -> bytes of the segment file
    ref,        \* binlogger under the default SegmentSizeBytes, given the same WriteTail calls
    written,    \* history: the payloads passed to WriteTail, in call order
    frames,     \* history: [Suffix, Offset, Payload] of every frame WriteTail encoded into dir
    damage,     \* the one alteration done to a file of dir behind the writer's back, or NoDamage
    walkOut,    \* what the last Walk over dir sent and returned
    refOut,     \* what the last Walk over ref sent and returned
    readOut,    \* what the last ReadFrom over dir returned
    \* binlogger.GC beside the writer
    gcFiles,    \* the suffixes of the segment files in b.dir
    gcTail,     \* the suffix of b.file, the file the writer appends to
    gcSnap,     \* GC's names, as readBinlogNames returned them
    gcIdx,      \* GC's position in its range over the names
    gcPos,      \* GC's pos.Suffix
    gpc,        \* "idle", or "loop" while GC is in its range
    gcRemoved,  \* history: the files GC removed, with what held when it did
    \* Server.WriteBinlog over a Proxy binlogger
    enableTolerant, \* Proxy.enableTolerant (cfg.enableProxySwitch)
    master,         \* the payloads in the master binlogger's log
    resps,          \* history: one record per WriteBinlog call that returned
    wpc,            \* "new" before NewServer, then "serve"
    \* Server.PullBinlogs beside the writer of the cluster's binlogger
    sdir,       \* the binlogger's directory: suffix -> bytes of the segment file
    pendingW,   \* the bytes of the frame under way that have not reached the file
    nFrames,    \* the frames the writer has begun
    spos,       \* PullBinlogs' pos
    batch,      \* the entities of the last ReadFrom that are not sent yet
    stream,     \* history: the entities sent on the stream
    spc,        \* "idle", "read", "send", or "ended" when PullBinlogs has returned
    endErr,     \* the error PullBinlogs returned
    \* FlashSyncer (drainer/sync/flash.go)
    rowBatches, \* e.rowBatches: db index -> the rows buffered for that db
    fitems,     \* e.items: the items whose rows are buffered or flushed by size
    fsuccess,   \* history: the items sent on e.success
    ferr,       \* e.err # nil
    fdown,      \* history: what was committed or executed downstream, in order
    freceived,  \* history: the Sync calls: kind, rows, and whether Sync returned nil
    frpc,       \* flushRoutine: "wait", "seterr" or "exited"
    \* the Merger (drainer/merge.go)
    sources,      \* m.sources: the IDs of the registered sources
    newSource,    \* m.newSource: IDs staged by AddSource
    removeSource, \* m.removeSource: IDs staged by RemoveSource
    binlogs,      \* m.binlogs: whether the map was made, and the head item of each source
    output,       \* m.output: the items in the channel, and whether it was closed
    close,        \* m.close
    lastTS,       \* run's lastTS
    mpc,          \* where run is: "new", "loop", "read", "done", "panic"
    todo,         \* the sources the range over m.sources has yet to visit
    skip,         \* run's skip
    srcChan,      \* the items in each source's channel
    srcClosed,    \* whether each source's channel was closed
    srcLast,      \* the commitTs each source delivered last
    emitted,      \* history: every item sent on m.output
    \* the puller (drainer/pump.go)
    last,             \* PullBinlog's last
    latestTS,         \* p.latestTS
    ret,              \* the channel PullBinlog returns: its items, and whether it was closed
    isClosed,         \* p.isClosed
    isPaused,         \* p.isPaused
    pctxDone,         \* whether pctx was cancelled
    grpcConn,         \* whether p.grpcConn is set
    needReCreateConn, \* PullBinlog's needReCreateConn
    ppc,              \* where PullBinlog's goroutine is: "loop", "conn", "recv", "send", "done"
    item,             \* the commitTs of the item in hand
    pulled,           \* the records Recv has returned
    forwarded,        \* history: the commitTs of every item sent on ret
    unsorted,         \* history: the commitTs logged as "receive unsort binlog"
    \* the Pump server's write path (pump/server.go)
    tso,           \* the timestamp the oracle issued last
    issued,        \* commitTs of the sessions that have not called WriteBinlog yet
    writing,       \* commitTs of the WriteBinlog calls that have not reached WriteTail yet
    needGenBinlog, \* s.needGenBinlog
    pumpLog,       \* the binlogs of the cluster's binlogger, in WriteTail order
    hpc,           \* where genForwardBinlog is: "start", "wait", "gen", "write", "set"
    fakeTS,        \* the timestamp genFakeBinlog got
    \* the arbiter server
    checkpoint,   \* the stored checkpoint row
    loaded,       \* what NewServer's checkpoint.Load() returned
    finishTS,     \* s.finishTS
    safeMode,     \* whether NewServer set safe mode
    readerNext,   \* the commitTs of the message the kafka reader passes on next
    readerClosed, \* whether s.kafkaReader was closed
    syncpc,       \* where syncBinlogs is: "recv", "first", "second", "done"
    syncTxn,      \* the commitTs of the txn syncBinlogs holds
    ldInput,      \* the loader's input channel
    ldClosed,     \* whether the loader was closed
    ldQueues,     \* the loader's per-worker channels
    successes,    \* the loader's Successes channel, and whether it was closed
    supDone,      \* whether Run's first goroutine has returned
    apc,          \* "run" while the process runs, "stopped" after Run returned, "killed"
    runNo,        \* the number of the run
    applied,      \* history: the commitTs of the txns committed downstream
    appliedRun,   \* history: the commitTs of the txns this run committed downstream
    saves         \* history: the ts of the ticker's Save calls of this run

logVars == <<dir, ref, written, frames, damage, walkOut, refOut, readOut>>

mergeVars == <<sources, newSource, removeSource, binlogs, output, close, lastTS,
               mpc, todo, skip, srcChan, srcClosed, srcLast, emitted>>

pullVars == <<last, latestTS, ret, isClosed, isPaused, pctxDone, grpcConn, needReCreateConn,
              ppc, item, pulled, forwarded, unsorted>>

pumpVars == <<tso, issued, writing, needGenBinlog, pumpLog, hpc, fakeTS>>

arbVars == <<checkpoint, loaded, finishTS, safeMode, readerNext, readerClosed, syncpc,
             syncTxn, ldInput, ldClosed, ldQueues, successes, supDone, apc, runNo,
             applied, appliedRun, saves>>

gcVars == <<gcFiles, gcTail, gcSnap, gcIdx, gcPos, gpc, gcRemoved>>

wbVars == <<enableTolerant, master, resps, wpc>>

srvVars == <<sdir, pendingW, nFrames, spos, batch, stream, spc, endErr>>

flashVars == <<rowBatches, fitems, fsuccess, ferr, fdown, freceived, frpc>>

reparoVars == <<syncPc, syncRet, syncAt, nSyncs, loaderPc, runRet, loaderTxns, loaderSuccClosed, inputClosed, succPc, callbacks, runGoPc, loaderErr, loaderQuit, closePc, closeRet>>

pauseVars == <<srcPause>>

ckptVars == <<pbpc, pbFile, pbCommitTS, pbInitial, pbClosed, pbRet, pbLast, cpRow, cpRet, cpLast>>

schemaVars == <<schState, schErr, schJobs, schLast>>

readVars == <<tdir, tframes, tout>>

syncVars == <<sbSource, sbSourceClosed, sbNext, sbpc, sbMsg, sbRecv, sbSent, sbInput, sbLdClosed, sbCtxDone, sbLoad, sbRet>>

tickVars == <<arrived>>

dispVars == <<dispatcher, muWriter, muReaders, dwpc, dwcid, drpc, dhpc, dhTodo, dhCid, dgpc, dgTodo, dPasses, dFatal>>

callVars == <<calls>>

proxyVars == <<xmaster, xreplicate, xlatest, xcp, xpos, xctx, xspc, xcpc, xwrites>>

vars == <<logVars, mergeVars, pullVars, pumpVars, arbVars, gcVars, wbVars, srvVars, flashVars, reparoVars, pauseVars, ckptVars, schemaVars, readVars, syncVars, tickVars, dispVars, callVars, proxyVars>>

-----------------------------------------------------------------------------
(* Bounds of the model *)

\* WriteTail calls per behaviour
MaxAppends == 2
\* rotate() is called directly only while the writer's file has a suffix below this
MaxRotates == 1
\* the small segment size: a frame of 18 bytes fills a segment, one of 17 bytes does not
SegmentSizeSmall == 18

-----------------------------------------------------------------------------
(* Bytes, little-endian integers and CRC-32C *)

Payloads == {<<>>, <<1>>, <<2, 1>>}

\* values an altered byte can take
AlteredBytes == {0, 255}

RECURSIVE XorBits(_, _, _)
XorBits(a, b, n) ==
    IF n = 0 THEN 0
    ELSE (((a % 2) + (b % 2)) % 2) + 2 * XorBits(a \div 2, b \div 2, n - 1)

\* a ^ b on bytes, tabulated once
Xor8 == [a \in 0..255 |-> [b \in 0..255 |-> XorBits(a, b, 8)]]

Xor4(c, d) == <<Xor8[c[1]][d[1]], Xor8[c[2]][d[2]], Xor8[c[3]][d[3]], Xor8[c[4]][d[4]]>>

\* The Castagnoli polynomial 0x82F63B78 (reflected), least significant byte first.
Castagnoli == <<120, 59, 246, 130>>

\* A 32-bit register as four bytes, least significant first, shifted right by one bit.
ShiftRight1(c) ==
    <<(c[1] \div 2) + 128 * (c[2] % 2),
      (c[2] \div 2) + 128 * (c[3] % 2),
      (c[3] \div 2) + 128 * (c[4] % 2),
      c[4] \div 2>>

RECURSIVE crcBits(_, _)
crcBits(c, n) ==
    IF n = 0 THEN c
    ELSE crcBits(IF c[1] % 2 = 1 THEN Xor4(ShiftRight1(c), Castagnoli)
                 ELSE ShiftRight1(c), n - 1)

\* crc32.MakeTable(crc32.Castagnoli): the register after eight shifts of each byte
crcTable == [i \in 0..255 |-> crcBits(<<i, 0, 0, 0>>, 8)]

\* crc = tab[byte(crc) ^ b] ^ (crc >> 8), over the bytes of p
RECURSIVE crcUpdate(_, _)
crcUpdate(c, p) ==
    IF p = <<>> THEN c
    ELSE crcUpdate(Xor4(crcTable[Xor8[c[1]][Head(p)]], <<c[2], c[3], c[4], 0>>), Tail(p))

\* crc32.Checksum(payload, crcTable), as the four bytes binary.LittleEndian stores
Checksum(p) == Xor4(crcUpdate(<<255, 255, 255, 255>>, p), <<255, 255, 255, 255>>)

\* magic 0x5A5A5A5A, little-endian
magic == <<90, 90, 90, 90>>

\* an int64 below 2^24, little-endian
PutInt64(n) == <<n % 256, (n \div 256) % 256, (n \div 65536) % 256, 0, 0, 0, 0, 0>>

Slice(s, from, to) == IF to < from THEN <<>> ELSE SubSeq(s, from, to)

-----------------------------------------------------------------------------
(* encoder.encode: magic(4) | payloadLen(8) | payload | crc32c(4) *)

encode(payload) == magic \o PutInt64(Len(payload)) \o payload \o Checksum(payload)

-----------------------------------------------------------------------------
(* decoder.decode *)

ErrNil == "nil"
EOF == "EOF"
ErrUnexpectedEOF == "unexpected EOF"
ErrCRCMismatch == "binlogger: crc mismatch"
ErrFileNotFound == "binlogger: file not found"
Panic == "panic"

\* One decode at byte offset off (0-based) of a file holding data.  oom says whether
\* the runtime fails an allocation of 2^31 bytes or more that is below its hard limit.
decode(data, off, oom) ==
    LET rem == Len(data) - off
        at(i) == data[off + i]
        size == at(5) + 256 * at(6) + 65536 * at(7) + 16777216 * at(8)
    IN  IF rem <= 0 THEN [err |-> EOF, Payload |-> <<>>]
        \* readInt32 fails with io.ErrUnexpectedEOF, decode only tests for io.EOF and
        \* goes on to checkMagic with magicNum still 0
        ELSE IF rem < 4 THEN [err |-> ErrCRCMismatch, Payload |-> <<>>]
        ELSE IF Slice(data, off + 1, off + 4) # magic
             THEN [err |-> ErrCRCMismatch, Payload |-> <<>>]
        ELSE IF rem < 12 THEN [err |-> ErrUnexpectedEOF, Payload |-> <<>>]
        \* make([]byte, size+4): a negative size, or one past the allocation limit, panics
        ELSE IF at(12) # 0 \/ at(11) # 0 THEN [err |-> Panic, Payload |-> <<>>]
        ELSE IF at(10) # 0 \/ at(9) # 0 \/ at(8) >= 128
             THEN [err |-> IF oom THEN Panic ELSE ErrUnexpectedEOF, Payload |-> <<>>]
        ELSE IF rem - 12 < size + 4 THEN [err |-> ErrUnexpectedEOF, Payload |-> <<>>]
        ELSE LET payload == Slice(data, off + 13, off + 12 + size)
                 entryCrc == Slice(data, off + 13 + size, off + 16 + size)
             IN  IF Checksum(payload) # entryCrc
                 THEN [err |-> ErrCRCMismatch, Payload |-> <<>>]
                 ELSE [err |-> ErrNil, Payload |-> payload]

-----------------------------------------------------------------------------
(* binlogger: the directory of segment files *)

\* SegmentSizeBytes as the package sets it: 512 MiB
SegmentSizeBytes == 536870912

ZeroPos == [Suffix |-> 0, Offset |-> 0]

RECURSIVE sortedNames(_)
sortedNames(S) ==
    IF S = {} THEN <<>>
    ELSE LET m == CHOOSE x \in S : \A y \in S : x <= y
         IN  <<m>> \o sortedNames(S \ {m})

\* the suffixes of the segment files of the directory, ascending
readBinlogNames(b) == sortedNames(DOMAIN b)

\* index in names of the file with this suffix, 0 when there is none
searchIndex(names, suffix) ==
    IF \E i \in 1..Len(names) : names[i] = suffix
    THEN CHOOSE i \in 1..Len(names) : names[i] = suffix
    ELSE 0

\* the suffix of the file the writer holds
seq(b) == CHOOSE x \in DOMAIN b : \A y \in DOMAIN b : y <= x

rotate(b) == (seq(b) + 1 :> <<>>) @@ b

\* a WriteTail that frames an empty payload like any other
WriteTail_framesEmpty(b, payload, segmentSize) ==
    LET appended == [b EXCEPT ![seq(b)] = @ \o encode(payload)]
        curOffset == Len(appended[seq(b)])
    IN  IF curOffset < segmentSize THEN appended ELSE rotate(appended)

WriteTail(b, payload, segmentSize) ==
    IF Len(payload) = 0 THEN b
    ELSE LET appended == [b EXCEPT ![seq(b)] = @ \o encode(payload)]
             curOffset == Len(appended[seq(b)])
         IN  IF curOffset < segmentSize THEN appended ELSE rotate(appended)

Entity(suffix, offset, payload) ==
    [Pos |-> [Suffix |-> suffix, Offset |-> offset], Payload |-> payload]

\* a Walk that returns at the end of the first file it reads
walkStops_atEOF(err) == TRUE

\* Walk leaves a file's loop on any decode error; only io.EOF lets it go on to the next file
walkStops(err) == err # EOF

\* Walk's inner loop over one file: rd is the file's read cursor, pos the decoder's
\* d.pos.Offset; every decoded entity is sent.
RECURSIVE walkFile(_, _, _, _, _, _)
walkFile(data, suffix, rd, pos, sent, oom) ==
    LET d == decode(data, rd, oom)
    IN  IF d.err # ErrNil THEN [err |-> d.err, sent |-> sent]
        ELSE walkFile(data, suffix, rd + 12 + Len(d.Payload) + 4,
                      pos + Len(d.Payload) + 16,
                      Append(sent, Entity(suffix, pos, d.Payload)), oom)

\* Walk's loop over names[i..]
RECURSIVE walkNames(_, _, _, _, _, _, _)
walkNames(b, names, i, from, latestPos, sent, oom) ==
    IF i > Len(names) THEN [pos |-> latestPos, err |-> ErrNil, sent |-> sent]
    ELSE LET r == walkFile(b[names[i]], from.Suffix, from.Offset, from.Offset, <<>>, oom)
             lastEnt == r.sent[Len(r.sent)]
             newLatest == IF r.sent = <<>> THEN latestPos
                          ELSE [Suffix |-> lastEnt.Pos.Suffix,
                                Offset |-> lastEnt.Pos.Offset + Len(lastEnt.Payload) + 16]
         IN  IF walkStops(r.err)
             THEN [pos |-> newLatest, err |-> r.err, sent |-> sent \o r.sent]
             ELSE walkNames(b, names, i + 1, [Suffix |-> from.Suffix + 1, Offset |-> 0],
                            newLatest, sent \o r.sent, oom)

Walk(b, from, oom) ==
    LET names == readBinlogNames(b)
        nameIndex == searchIndex(names, from.Suffix)
    IN  IF nameIndex = 0 THEN [pos |-> from, err |-> ErrFileNotFound, sent |-> <<>>]
        ELSE walkNames(b, names, nameIndex, from, from, <<>>, oom)

\* ReadFrom's inner loop over one file: for ; index < nums; index++ { decode; append }
RECURSIVE readFile(_, _, _, _, _, _, _)
readFile(data, suffix, rd, pos, ents, nums, oom) ==
    IF Len(ents) >= nums THEN [err |-> ErrNil, ents |-> ents]
    ELSE LET d == decode(data, rd, oom)
         IN  IF d.err # ErrNil THEN [err |-> d.err, ents |-> ents]
             ELSE readFile(data, suffix, rd + 12 + Len(d.Payload) + 4,
                           pos + Len(d.Payload) + 16,
                           Append(ents, Entity(suffix, pos, d.Payload)), nums, oom)

RECURSIVE readNames(_, _, _, _, _, _, _)
readNames(b, names, i, from, ents, nums, oom) ==
    IF i > Len(names) THEN [err |-> ErrNil, ents |-> ents]
    ELSE LET r == readFile(b[names[i]], from.Suffix, from.Offset, from.Offset, ents, nums, oom)
         IN  IF (r.err # ErrNil /\ r.err # EOF) \/ Len(r.ents) = nums
             THEN [err |-> IF Len(r.ents) = nums /\ Len(ents) = nums THEN ErrNil ELSE r.err,
                   ents |-> r.ents]
             ELSE readNames(b, names, i + 1, [Suffix |-> from.Suffix + 1, Offset |-> 0],
                            r.ents, nums, oom)

\* a ReadFrom that does not go on to the files after the one from names
ReadFrom_oneFile(b, from, nums, oom) ==
    LET names == readBinlogNames(b)
        nameIndex == searchIndex(names, from.Suffix)
    IN  IF nameIndex = 0 THEN [err |-> ErrFileNotFound, ents |-> <<>>]
        ELSE readNames(b, SubSeq(names, 1, nameIndex), nameIndex, from, <<>>, nums, oom)

ReadFrom(b, from, nums, oom) ==
    LET names == readBinlogNames(b)
        nameIndex == searchIndex(names, from.Suffix)
    IN  IF nameIndex = 0 THEN [err |-> ErrFileNotFound, ents |-> <<>>]
        ELSE readNames(b, names, nameIndex, from, <<>>, nums, oom)

-----------------------------------------------------------------------------
(* The storage specification: one writer, then at most one alteration of a   *)
(* file behind its back, with Walk and ReadFrom called at any moment.        *)

NoDamage == [kind |-> "none", Suffix |-> 0, Offset |-> 0]
NoOut == [called |-> FALSE]

InitLog ==
    /\ dir = (0 :> <<>>)
    /\ ref = (0 :> <<>>)
    /\ written = <<>>
    /\ frames = <<>>
    /\ damage = NoDamage
    /\ walkOut = NoOut
    /\ refOut = NoOut
    /\ readOut = NoOut

\* binlogger.WriteTail(payload), the same call made on both binloggers
WriteTailCall(payload) ==
    /\ damage = NoDamage
    /\ ~walkOut.called /\ ~readOut.called
    /\ Len(written) < MaxAppends
    /\ dir' = WriteTail(dir, payload, SegmentSizeSmall)
    /\ ref' = WriteTail(ref, payload, SegmentSizeBytes)
    /\ written' = Append(written, payload)
    /\ frames' = IF Len(payload) = 0 THEN frames
                 ELSE Append(frames, Entity(seq(dir), Len(dir[seq(dir)]), payload))
    /\ UNCHANGED <<damage, walkOut, refOut, readOut>>

\* binlogger.rotate() called directly, as the tests do
RotateCall ==
    /\ damage = NoDamage
    /\ ~walkOut.called /\ ~readOut.called
    /\ seq(dir) < MaxRotates
    /\ dir' = rotate(dir)
    /\ UNCHANGED <<ref, written, frames, damage, walkOut, refOut, readOut>>

\* one byte of a stored file is altered
Corrupt(s, off, v) ==
    /\ damage = NoDamage
    /\ ~walkOut.called /\ ~readOut.called
    /\ v # dir[s][off + 1]
    /\ dir' = [dir EXCEPT ![s][off + 1] = v]
    /\ damage' = [kind |-> "corrupt", Suffix |-> s, Offset |-> off]
    /\ UNCHANGED <<ref, written, frames, walkOut, refOut, readOut>>

\* a file is cut to size bytes (f.Truncate in TestCourruption)
Truncate(s, size) ==
    /\ damage = NoDamage
    /\ ~walkOut.called /\ ~readOut.called
    /\ dir' = [dir EXCEPT ![s] = Slice(@, 1, size)]
    /\ damage' = [kind |-> "truncate", Suffix |-> s, Offset |-> size]
    /\ UNCHANGED <<ref, written, frames, walkOut, refOut, readOut>>

\* binlogger.Walk(ctx, Pos{}, send) on both binloggers
WalkCall(oom) ==
    /\ ~walkOut.called /\ ~readOut.called
    /\ walkOut' = [called |-> TRUE] @@ Walk(dir, ZeroPos, oom)
    /\ refOut' = [called |-> TRUE] @@ Walk(ref, ZeroPos, oom)
    /\ UNCHANGED readOut
    /\ UNCHANGED <<dir, ref, written, frames, damage>>

\* binlogger.ReadFrom(from, nums) from the start of a frame
ReadFromCall(from, nums, oom) ==
    /\ readOut' = [called |-> TRUE, from |-> from, nums |-> nums]
                    @@ ReadFrom(dir, from, nums, oom)
    /\ ~walkOut.called /\ ~readOut.called
    /\ UNCHANGED <<walkOut, refOut>>
    /\ UNCHANGED <<dir, ref, written, frames, damage>>

\* the caller is done with what Walk or ReadFrom returned
Return ==
    /\ walkOut.called \/ readOut.called
    /\ walkOut' = NoOut /\ refOut' = NoOut /\ readOut' = NoOut
    /\ UNCHANGED <<dir, ref, written, frames, damage>>

FrameStarts == {ZeroPos} \cup {frames[i].Pos : i \in 1..Len(frames)}

NextLog ==
    \/ \E payload \in Payloads : WriteTailCall(payload) /\ UNCHANGED <<mergeVars, pullVars, pumpVars, arbVars, gcVars, wbVars, srvVars, flashVars, reparoVars, pauseVars, ckptVars, schemaVars, readVars, syncVars, tickVars, dispVars, callVars, proxyVars>>
    \/ RotateCall /\ UNCHANGED <<mergeVars, pullVars, pumpVars, arbVars, gcVars, wbVars, srvVars, flashVars, reparoVars, pauseVars, ckptVars, schemaVars, readVars, syncVars, tickVars, dispVars, callVars, proxyVars>>
    \/ \E s \in DOMAIN dir : \E off \in 0..(Len(dir[s]) - 1) :
           \E v \in AlteredBytes : Corrupt(s, off, v) /\ UNCHANGED <<mergeVars, pullVars, pumpVars, arbVars, gcVars, wbVars, srvVars, flashVars, reparoVars, pauseVars, ckptVars, schemaVars, readVars, syncVars, tickVars, dispVars, callVars, proxyVars>>
    \/ \E s \in DOMAIN dir : \E size \in 0..(Len(dir[s]) - 1) : Truncate(s, size) /\ UNCHANGED <<mergeVars, pullVars, pumpVars, arbVars, gcVars, wbVars, srvVars, flashVars, reparoVars, pauseVars, ckptVars, schemaVars, readVars, syncVars, tickVars, dispVars, callVars, proxyVars>>
    \/ \E oom \in BOOLEAN : WalkCall(oom) /\ UNCHANGED <<mergeVars, pullVars, pumpVars, arbVars, gcVars, wbVars, srvVars, flashVars, reparoVars, pauseVars, ckptVars, schemaVars, readVars, syncVars, tickVars, dispVars, callVars, proxyVars>>
    \/ \E from \in FrameStarts : \E nums \in 1..MaxAppends :
           \E oom \in BOOLEAN : ReadFromCall(from, nums, oom) /\ UNCHANGED <<mergeVars, pullVars, pumpVars, arbVars, gcVars, wbVars, srvVars, flashVars, reparoVars, pauseVars, ckptVars, schemaVars, readVars, syncVars, tickVars, dispVars, callVars, proxyVars>>
    \/ Return /\ UNCHANGED <<mergeVars, pullVars, pumpVars, arbVars, gcVars, wbVars, srvVars, flashVars, reparoVars, pauseVars, ckptVars, schemaVars, readVars, syncVars, tickVars, dispVars, callVars, proxyVars>>

-----------------------------------------------------------------------------
(* binlogger.GC next to the writer of the same directory *)

\* the suffixes a directory gets per behaviour are 0..MaxSegments
MaxSegments == 2

\* a GC that ranges over every name, the latest file included
gcCandidates_all(names) == names

\* GC: names[:len(names)-1], "skip the latest binlog file"
gcCandidates(names) == SubSeq(names, 1, Len(names) - 1)

\* CreateBinlogger: the directory holds the file with suffix 0
InitGC ==
    /\ gcFiles = {0}
    /\ gcTail = 0
    /\ gcSnap = <<>>
    /\ gcIdx = 1
    /\ gcPos = 0
    /\ gpc = "idle"
    /\ gcRemoved = {}

\* rotate(), called by WriteTail when the file is full or directly: the writer
\* moves to a new file with the next suffix. A WriteTail that does not rotate
\* leaves the set of files and b.file as they are.
GCRotate ==
    /\ gcTail < MaxSegments
    /\ gcFiles' = gcFiles \cup {gcTail + 1}
    /\ gcTail' = gcTail + 1
    /\ UNCHANGED <<gcSnap, gcIdx, gcPos, gpc, gcRemoved>>

\* GC(days, pos) reads the names of the directory
GCCall(pos) ==
    /\ gpc = "idle"
    /\ gcSnap' = sortedNames(gcFiles)
    /\ gcIdx' = 1
    /\ gcPos' = pos
    /\ gpc' = "loop"
    /\ UNCHANGED <<gcFiles, gcTail, gcRemoved>>

\* one turn of GC's range: os.Stat, parseBinlogName, and os.Remove when
\* curSuffix < pos.Suffix || time.Now().Sub(fi.ModTime()) > days;
\* old says whether Stat finds the file older than days
GCFile(old) ==
    /\ gpc = "loop"
    /\ gcIdx <= Len(gcCandidates(gcSnap))
    /\ LET curSuffix == gcCandidates(gcSnap)[gcIdx]
       IN  IF curSuffix < gcPos \/ old
           THEN /\ gcFiles' = gcFiles \ {curSuffix}
                /\ gcRemoved' = gcRemoved \cup
                                   {[Suffix |-> curSuffix, old |-> old,
                                     below |-> curSuffix < gcPos,
                                     tail |-> curSuffix = gcTail]}
           ELSE UNCHANGED <<gcFiles, gcRemoved>>
    /\ gcIdx' = gcIdx + 1
    /\ UNCHANGED <<gcTail, gcSnap, gcPos, gpc>>

\* GC's range is over
GCReturn ==
    /\ gpc = "loop"
    /\ gcIdx > Len(gcCandidates(gcSnap))
    /\ gpc' = "idle"
    /\ UNCHANGED <<gcFiles, gcTail, gcSnap, gcIdx, gcPos, gcRemoved>>

NextGC ==
    \/ GCRotate /\ UNCHANGED <<logVars, mergeVars, pullVars, pumpVars, arbVars, wbVars, srvVars, flashVars, reparoVars, pauseVars, ckptVars, schemaVars, readVars, syncVars, tickVars, dispVars, callVars, proxyVars>>
    \/ \E pos \in 0..MaxSegments : GCCall(pos) /\ UNCHANGED <<logVars, mergeVars, pullVars, pumpVars, arbVars, wbVars, srvVars, flashVars, reparoVars, pauseVars, ckptVars, schemaVars, readVars, syncVars, tickVars, dispVars, callVars, proxyVars>>
    \/ \E old \in BOOLEAN : GCFile(old) /\ UNCHANGED <<logVars, mergeVars, pullVars, pumpVars, arbVars, wbVars, srvVars, flashVars, reparoVars, pauseVars, ckptVars, schemaVars, readVars, syncVars, tickVars, dispVars, callVars, proxyVars>>
    \/ GCReturn /\ UNCHANGED <<logVars, mergeVars, pullVars, pumpVars, arbVars, wbVars, srvVars, flashVars, reparoVars, pauseVars, ckptVars, schemaVars, readVars, syncVars, tickVars, dispVars, callVars, proxyVars>>

-----------------------------------------------------------------------------
(* drainer/merge.go: the Merger *)

SourceIDs == {"pump1", "pump2"}

\* the largest commitTs a source delivers
MaxTS == 2
\* AddSource and RemoveSource calls staged between two updateSource calls
MaxStaged == 1

\* make(chan MergeItem, 10) in NewMerger
OutputCap == 10
\* make(chan MergeItem, binlogChanSize) in PullBinlog, the channel of a MergeSource
binlogChanSize == 10

\* stands for math.MinInt64: below every commitTs
MinInt64 == -1

EmptyMap == [s \in {} |-> 0]
\* a map field the constructor left nil
NilMap == [made |-> FALSE, heads |-> EmptyMap]
MadeMap == [made |-> TRUE, heads |-> EmptyMap]

Range(q) == {q[i] : i \in 1..Len(q)}

MergeItem(id, ts) == [ID |-> id, CommitTs |-> ts]

InitMerge ==
    /\ sources = {}
    /\ newSource = <<>>
    /\ removeSource = <<>>
    /\ binlogs = NilMap
    /\ output = [items |-> <<>>, closed |-> FALSE]
    /\ close = FALSE
    /\ lastTS = MinInt64
    /\ mpc = "new"
    /\ todo = {}
    /\ skip = FALSE
    /\ srcChan = [s \in SourceIDs |-> <<>>]
    /\ srcClosed = [s \in SourceIDs |-> FALSE]
    /\ srcLast = [s \in SourceIDs |-> 0]
    /\ emitted = <<>>

\* A Merger comes to be with the given sources and run starts.  NewMerger leaves
\* m.binlogs nil (made = FALSE); a Merger whose table was made has made = TRUE.
NewMerger(srcs, made) ==
    /\ mpc = "new"
    /\ sources' = srcs
    /\ binlogs' = IF made THEN MadeMap ELSE NilMap
    /\ mpc' = "loop"
    /\ UNCHANGED <<newSource, removeSource, output, close, lastTS, todo, skip,
                   srcChan, srcClosed, srcLast, emitted>>

\* the sources are given to NewMerger with their Pause field set
InitPause == srcPause = [s \in SourceIDs |-> FALSE]

NewMergerPaused(srcs, made, pause) ==
    /\ NewMerger(srcs, made)
    /\ srcPause' = pause

\* Merger.Close
Close ==
    /\ mpc # "new"
    /\ ~close
    /\ close' = TRUE
    /\ UNCHANGED <<sources, newSource, removeSource, binlogs, output, lastTS, mpc,
                   todo, skip, srcChan, srcClosed, srcLast, emitted>>

\* Merger.AddSource
AddSource(id) ==
    /\ mpc # "new"
    /\ id \notin sources
    /\ Len(newSource) < MaxStaged
    /\ newSource' = Append(newSource, id)
    /\ UNCHANGED <<sources, removeSource, binlogs, output, close, lastTS, mpc,
                   todo, skip, srcChan, srcClosed, srcLast, emitted>>

\* Merger.RemoveSource
RemoveSource(id) ==
    /\ mpc # "new"
    /\ id \in sources
    /\ Len(removeSource) < MaxStaged
    /\ removeSource' = Append(removeSource, id)
    /\ UNCHANGED <<sources, newSource, binlogs, output, close, lastTS, mpc,
                   todo, skip, srcChan, srcClosed, srcLast, emitted>>

\* Merger.updateSource: the staged additions, then the staged removals
updateSource(srcs, added, removed) == (srcs \cup Range(added)) \ Range(removed)

\* the top of run's loop: isClosed, updateSource, and the start of the range over m.sources
RunLoop ==
    /\ mpc = "loop"
    /\ IF close
       THEN /\ mpc' = "done"
            /\ output' = [output EXCEPT !.closed = TRUE]
            /\ UNCHANGED <<sources, newSource, removeSource, todo, skip>>
       ELSE /\ sources' = updateSource(sources, newSource, removeSource)
            /\ newSource' = <<>>
            /\ removeSource' = <<>>
            /\ todo' = sources'
            /\ skip' = FALSE
            /\ mpc' = "read"
            /\ UNCHANGED output
    /\ UNCHANGED <<binlogs, close, lastTS, srcChan, srcClosed, srcLast, emitted>>

\* one turn of the range over m.sources, for a source that has a head
RunHasHead(id) ==
    /\ mpc = "read"
    /\ id \in todo
    /\ id \in DOMAIN binlogs.heads
    /\ todo' = todo \ {id}
    /\ UNCHANGED <<sources, newSource, removeSource, binlogs, output, close, lastTS,
                   mpc, skip, srcChan, srcClosed, srcLast, emitted>>

\* one turn for a source without a head: binlog, ok := <-source.Source gives an item.
\* Storing it in a nil map faults; the deferred close(m.output) runs.
RunReadHead(id) ==
    /\ mpc = "read"
    /\ id \in todo
    /\ id \notin DOMAIN binlogs.heads
    /\ srcChan[id] # <<>>
    /\ srcChan' = [srcChan EXCEPT ![id] = Tail(@)]
    /\ IF binlogs.made
       THEN /\ binlogs' = [binlogs EXCEPT !.heads = (id :> Head(srcChan[id])) @@ @]
            /\ todo' = todo \ {id}
            /\ UNCHANGED <<mpc, output>>
       ELSE /\ mpc' = "panic"
            /\ output' = [output EXCEPT !.closed = TRUE]
            /\ UNCHANGED <<binlogs, todo>>
    /\ UNCHANGED <<sources, newSource, removeSource, close, lastTS, skip,
                   srcClosed, srcLast, emitted>>

\* one turn for a source without a head whose channel is closed and empty
RunSourceClosed(id) ==
    /\ mpc = "read"
    /\ id \in todo
    /\ id \notin DOMAIN binlogs.heads
    /\ srcChan[id] = <<>>
    /\ srcClosed[id]
    /\ skip' = TRUE
    /\ todo' = todo \ {id}
    /\ UNCHANGED <<sources, newSource, removeSource, binlogs, output, close, lastTS,
                   mpc, srcChan, srcClosed, srcLast, emitted>>

\* if skip { time.Sleep(time.Second); continue }
RunSkip ==
    /\ mpc = "read"
    /\ todo = {}
    /\ skip
    /\ mpc' = "loop"
    /\ UNCHANGED <<sources, newSource, removeSource, binlogs, output, close, lastTS,
                   todo, skip, srcChan, srcClosed, srcLast, emitted>>

\* the IDs the range over m.binlogs can leave in minID: binlog.GetCommitTs() <
\* minBinlog.GetCommitTs() keeps the first of equal items, in an unspecified map order
minIDs(heads) ==
    {id \in DOMAIN heads : \A other \in DOMAIN heads : heads[id].CommitTs <= heads[other].CommitTs}

\* minBinlog.GetCommitTs() < lastTS in place of <=
staleTS_strict(ts, sent) == ts < sent

\* minBinlog.GetCommitTs() <= lastTS
staleTS(ts, sent) == ts <= sent

\* if minBinlog == nil { continue }
RunNoHead ==
    /\ mpc = "read"
    /\ todo = {}
    /\ ~skip
    /\ minIDs(binlogs.heads) = {}
    /\ mpc' = "loop"
    /\ UNCHANGED <<sources, newSource, removeSource, binlogs, output, close, lastTS,
                   todo, skip, srcChan, srcClosed, srcLast, emitted>>

\* the smallest head is not above lastTS: it is logged and stays the head
RunStale(minID) ==
    /\ mpc = "read"
    /\ todo = {}
    /\ ~skip
    /\ minID \in minIDs(binlogs.heads)
    /\ staleTS(binlogs.heads[minID].CommitTs, lastTS)
    /\ mpc' = "loop"
    /\ UNCHANGED <<sources, newSource, removeSource, binlogs, output, close, lastTS,
                   todo, skip, srcChan, srcClosed, srcLast, emitted>>

\* m.output <- minBinlog; delete(m.binlogs, minID); lastTS = minBinlog.GetCommitTs()
RunEmit(minID) ==
    /\ mpc = "read"
    /\ todo = {}
    /\ ~skip
    /\ minID \in minIDs(binlogs.heads)
    /\ ~staleTS(binlogs.heads[minID].CommitTs, lastTS)
    /\ Len(output.items) < OutputCap
    /\ output' = [output EXCEPT !.items = Append(@, binlogs.heads[minID])]
    /\ emitted' = Append(emitted, binlogs.heads[minID])
    /\ binlogs' = [binlogs EXCEPT !.heads = [id \in DOMAIN @ \ {minID} |-> @[id]]]
    /\ lastTS' = binlogs.heads[minID].CommitTs
    /\ mpc' = "loop"
    /\ UNCHANGED <<sources, newSource, removeSource, close, todo, skip,
                   srcChan, srcClosed, srcLast>>

\* a source's puller sends its next item, with a commitTs above its last one
SourceSend(id, ts) ==
    /\ ~srcClosed[id]
    /\ ts > srcLast[id]
    /\ Len(srcChan[id]) < binlogChanSize
    /\ srcChan' = [srcChan EXCEPT ![id] = Append(@, MergeItem(id, ts))]
    /\ srcLast' = [srcLast EXCEPT ![id] = ts]
    /\ UNCHANGED <<sources, newSource, removeSource, binlogs, output, close, lastTS,
                   mpc, todo, skip, srcClosed, emitted>>

\* a source's puller returns and closes its channel
SourceClose(id) ==
    /\ ~srcClosed[id]
    /\ srcClosed' = [srcClosed EXCEPT ![id] = TRUE]
    /\ UNCHANGED <<sources, newSource, removeSource, binlogs, output, close, lastTS,
                   mpc, todo, skip, srcChan, srcLast, emitted>>

\* the reader of Merger.Output() takes an item
OutputRecv ==
    /\ output.items # <<>>
    /\ output' = [output EXCEPT !.items = Tail(@)]
    /\ UNCHANGED <<sources, newSource, removeSource, binlogs, close, lastTS,
                   mpc, todo, skip, srcChan, srcClosed, srcLast, emitted>>

NextMerge ==
    \/ \E srcs \in SUBSET SourceIDs : \E made \in BOOLEAN : NewMerger(srcs, made) /\ UNCHANGED <<logVars, pullVars, pumpVars, arbVars, gcVars, wbVars, srvVars, flashVars, reparoVars, pauseVars, ckptVars, schemaVars, readVars, syncVars, tickVars, dispVars, callVars, proxyVars>>
    \/ Close /\ UNCHANGED <<logVars, pullVars, pumpVars, arbVars, gcVars, wbVars, srvVars, flashVars, reparoVars, pauseVars, ckptVars, schemaVars, readVars, syncVars, tickVars, dispVars, callVars, proxyVars>>
    \/ \E id \in SourceIDs : AddSource(id) /\ UNCHANGED <<logVars, pullVars, pumpVars, arbVars, gcVars, wbVars, srvVars, flashVars, reparoVars, pauseVars, ckptVars, schemaVars, readVars, syncVars, tickVars, dispVars, callVars, proxyVars>>
    \/ \E id \in SourceIDs : RemoveSource(id) /\ UNCHANGED <<logVars, pullVars, pumpVars, arbVars, gcVars, wbVars, srvVars, flashVars, reparoVars, pauseVars, ckptVars, schemaVars, readVars, syncVars, tickVars, dispVars, callVars, proxyVars>>
    \/ RunLoop /\ UNCHANGED <<logVars, pullVars, pumpVars, arbVars, gcVars, wbVars, srvVars, flashVars, reparoVars, pauseVars, ckptVars, schemaVars, readVars, syncVars, tickVars, dispVars, callVars, proxyVars>>
    \/ \E id \in SourceIDs : RunHasHead(id) /\ UNCHANGED <<logVars, pullVars, pumpVars, arbVars, gcVars, wbVars, srvVars, flashVars, reparoVars, pauseVars, ckptVars, schemaVars, readVars, syncVars, tickVars, dispVars, callVars, proxyVars>>
    \/ \E id \in SourceIDs : RunReadHead(id) /\ UNCHANGED <<logVars, pullVars, pumpVars, arbVars, gcVars, wbVars, srvVars, flashVars, reparoVars, pauseVars, ckptVars, schemaVars, readVars, syncVars, tickVars, dispVars, callVars, proxyVars>>
    \/ \E id \in SourceIDs : RunSourceClosed(id) /\ UNCHANGED <<logVars, pullVars, pumpVars, arbVars, gcVars, wbVars, srvVars, flashVars, reparoVars, pauseVars, ckptVars, schemaVars, readVars, syncVars, tickVars, dispVars, callVars, proxyVars>>
    \/ RunSkip /\ UNCHANGED <<logVars, pullVars, pumpVars, arbVars, gcVars, wbVars, srvVars, flashVars, reparoVars, pauseVars, ckptVars, schemaVars, readVars, syncVars, tickVars, dispVars, callVars, proxyVars>>
    \/ RunNoHead /\ UNCHANGED <<logVars, pullVars, pumpVars, arbVars, gcVars, wbVars, srvVars, flashVars, reparoVars, pauseVars, ckptVars, schemaVars, readVars, syncVars, tickVars, dispVars, callVars, proxyVars>>
    \/ \E id \in SourceIDs : RunStale(id) /\ UNCHANGED <<logVars, pullVars, pumpVars, arbVars, gcVars, wbVars, srvVars, flashVars, reparoVars, pauseVars, ckptVars, schemaVars, readVars, syncVars, tickVars, dispVars, callVars, proxyVars>>
    \/ \E id \in SourceIDs : RunEmit(id) /\ UNCHANGED <<logVars, pullVars, pumpVars, arbVars, gcVars, wbVars, srvVars, flashVars, reparoVars, pauseVars, ckptVars, schemaVars, readVars, syncVars, tickVars, dispVars, callVars, proxyVars>>
    \/ \E id \in SourceIDs : \E ts \in 1..MaxTS : SourceSend(id, ts) /\ UNCHANGED <<logVars, pullVars, pumpVars, arbVars, gcVars, wbVars, srvVars, flashVars, reparoVars, pauseVars, ckptVars, schemaVars, readVars, syncVars, tickVars, dispVars, callVars, proxyVars>>
    \/ \E id \in SourceIDs : SourceClose(id) /\ UNCHANGED <<logVars, pullVars, pumpVars, arbVars, gcVars, wbVars, srvVars, flashVars, reparoVars, pauseVars, ckptVars, schemaVars, readVars, syncVars, tickVars, dispVars, callVars, proxyVars>>
    \/ OutputRecv /\ UNCHANGED <<logVars, pullVars, pumpVars, arbVars, gcVars, wbVars, srvVars, flashVars, reparoVars, pauseVars, ckptVars, schemaVars, readVars, syncVars, tickVars, dispVars, callVars, proxyVars>>

-----------------------------------------------------------------------------
(* drainer/pump.go: the puller of one Pump *)

\* the largest commitTs of a record the Pump streams
MaxPullTS == 2
\* records the stream delivers per behaviour
MaxPulls == 3

InitPull ==
    /\ last = 0
    /\ latestTS = 0
    /\ ret = [items |-> <<>>, closed |-> FALSE]
    /\ isClosed = FALSE
    /\ isPaused = FALSE
    /\ pctxDone = FALSE
    /\ grpcConn = FALSE
    /\ needReCreateConn = FALSE
    /\ ppc = "loop"
    /\ item = 0
    /\ pulled = 0
    /\ forwarded = <<>>
    /\ unsorted = <<>>

\* Pump.Close
PumpClose ==
    /\ ~isClosed
    /\ isClosed' = TRUE
    /\ UNCHANGED <<last, latestTS, ret, isPaused, pctxDone, grpcConn, needReCreateConn,
                   ppc, item, pulled, forwarded, unsorted>>

\* Pump.Pause
Pause ==
    /\ ~isPaused
    /\ isPaused' = TRUE
    /\ UNCHANGED <<last, latestTS, ret, isClosed, pctxDone, grpcConn, needReCreateConn,
                   ppc, item, pulled, forwarded, unsorted>>

\* Pump.Continue
Continue ==
    /\ isPaused
    /\ isPaused' = FALSE
    /\ UNCHANGED <<last, latestTS, ret, isClosed, pctxDone, grpcConn, needReCreateConn,
                   ppc, item, pulled, forwarded, unsorted>>

\* pctx is cancelled
PctxCancel ==
    /\ ~pctxDone
    /\ pctxDone' = TRUE
    /\ UNCHANGED <<last, latestTS, ret, isClosed, isPaused, grpcConn, needReCreateConn,
                   ppc, item, pulled, forwarded, unsorted>>

\* the top of the loop with isClosed set: return, and the deferred close(ret)
PullReturnClosed ==
    /\ ppc = "loop"
    /\ isClosed
    /\ ppc' = "done"
    /\ ret' = [ret EXCEPT !.closed = TRUE]
    /\ UNCHANGED <<last, latestTS, isClosed, isPaused, pctxDone, grpcConn,
                   needReCreateConn, item, pulled, forwarded, unsorted>>

\* the top of the loop, neither closed nor paused: on to the connection or to Recv
PullLoop ==
    /\ ppc = "loop"
    /\ ~isClosed
    /\ ~isPaused
    /\ ppc' = IF ~grpcConn \/ needReCreateConn THEN "conn" ELSE "recv"
    /\ UNCHANGED <<last, latestTS, ret, isClosed, isPaused, pctxDone, grpcConn,
                   needReCreateConn, item, pulled, forwarded, unsorted>>

\* createPullBinlogsClient(pctx, last) succeeds or fails
PullCreateConn(ok) ==
    /\ ppc = "conn"
    /\ grpcConn' = ok
    /\ needReCreateConn' = IF ok THEN FALSE ELSE needReCreateConn
    /\ ppc' = IF ok THEN "recv" ELSE "loop"
    /\ UNCHANGED <<last, latestTS, ret, isClosed, isPaused, pctxDone,
                   item, pulled, forwarded, unsorted>>

\* p.pullCli.Recv() returns a record whose binlog has this commitTs
PullRecv(ts) ==
    /\ ppc = "recv"
    /\ pulled < MaxPulls
    /\ pulled' = pulled + 1
    /\ item' = ts
    /\ ppc' = "send"
    /\ UNCHANGED <<last, latestTS, ret, isClosed, isPaused, pctxDone, grpcConn,
                   needReCreateConn, forwarded, unsorted>>

\* p.pullCli.Recv() returns an error
PullRecvErr ==
    /\ ppc = "recv"
    /\ needReCreateConn' = TRUE
    /\ ppc' = "loop"
    /\ UNCHANGED <<last, latestTS, ret, isClosed, isPaused, pctxDone, grpcConn,
                   item, pulled, forwarded, unsorted>>

\* binlog.Unmarshal fails: reportErr and return
PullUnmarshalErr ==
    /\ ppc = "recv"
    /\ pulled < MaxPulls
    /\ pulled' = pulled + 1
    /\ ppc' = "done"
    /\ ret' = [ret EXCEPT !.closed = TRUE]
    /\ UNCHANGED <<last, latestTS, isClosed, isPaused, pctxDone, grpcConn,
                   needReCreateConn, item, forwarded, unsorted>>

\* select's case ret <- item: the item is in the channel, and then its commitTs is
\* compared with last
PullSend ==
    /\ ppc = "send"
    /\ Len(ret.items) < binlogChanSize
    /\ ret' = [ret EXCEPT !.items = Append(@, item)]
    /\ forwarded' = Append(forwarded, item)
    /\ IF item > last
       THEN last' = item /\ latestTS' = item /\ UNCHANGED unsorted
       ELSE unsorted' = Append(unsorted, item) /\ UNCHANGED <<last, latestTS>>
    /\ ppc' = "loop"
    /\ UNCHANGED <<isClosed, isPaused, pctxDone, grpcConn, needReCreateConn, item, pulled>>

\* select's case <-pctx.Done(): return
PullCtxDone ==
    /\ ppc = "send"
    /\ pctxDone
    /\ ppc' = "done"
    /\ ret' = [ret EXCEPT !.closed = TRUE]
    /\ UNCHANGED <<last, latestTS, isClosed, isPaused, pctxDone, grpcConn,
                   needReCreateConn, item, pulled, forwarded, unsorted>>

\* the merger takes an item from the channel
RetRecv ==
    /\ ret.items # <<>>
    /\ ret' = [ret EXCEPT !.items = Tail(@)]
    /\ UNCHANGED <<last, latestTS, isClosed, isPaused, pctxDone, grpcConn,
                   needReCreateConn, ppc, item, pulled, forwarded, unsorted>>

-----------------------------------------------------------------------------
(* pump/server.go: WriteBinlog and the heartbeat (genForwardBinlog) *)

\* timestamps the oracle issues per behaviour
MaxTSO == 4

commitBinlog(ts) == [Tp |-> "Commit", CommitTs |-> ts]

\* a heartbeat whose binlog has the type of a commit
genFakeBinlog_commit(ts) == commitBinlog(ts)

\* genFakeBinlog's binlog
genFakeBinlog(ts) == [Tp |-> "Rollback", CommitTs |-> ts]

InitPump ==
    /\ tso = 0
    /\ issued = {}
    /\ writing = {}
    /\ needGenBinlog = FALSE
    /\ pumpLog = <<>>
    /\ hpc = "start"
    /\ fakeTS = 0

\* a TiDB session gets the commitTs of its transaction from the oracle
ClientGetTS ==
    /\ tso < MaxTSO
    /\ tso' = tso + 1
    /\ issued' = issued \cup {tso + 1}
    /\ UNCHANGED <<writing, needGenBinlog, pumpLog, hpc, fakeTS>>

\* WriteBinlog is called with the session's binlog: s.needGenBinlog.Set(false)
WriteBinlogStart(ts) ==
    /\ ts \in issued
    /\ issued' = issued \ {ts}
    /\ writing' = writing \cup {ts}
    /\ needGenBinlog' = FALSE
    /\ UNCHANGED <<tso, pumpLog, hpc, fakeTS>>

\* WriteBinlog: binlogger.WriteTail(in.Payload)
WriteBinlogTail(ts) ==
    /\ ts \in writing
    /\ writing' = writing \ {ts}
    /\ pumpLog' = Append(pumpLog, commitBinlog(ts))
    /\ UNCHANGED <<tso, issued, needGenBinlog, hpc, fakeTS>>

\* genForwardBinlog starts: s.needGenBinlog.Set(true)
GenForwardStart ==
    /\ hpc = "start"
    /\ needGenBinlog' = TRUE
    /\ hpc' = "wait"
    /\ UNCHANGED <<tso, issued, writing, pumpLog, fakeTS>>

\* genBinlogInterval has passed: writeFakeBinlog reads the flag
FakeCheck ==
    /\ hpc = "wait"
    /\ hpc' = IF needGenBinlog THEN "gen" ELSE "set"
    /\ UNCHANGED <<tso, issued, writing, needGenBinlog, pumpLog, fakeTS>>

\* writeFakeBinlog: genFakeBinlog gets a timestamp from the oracle
FakeGetTSO ==
    /\ hpc = "gen"
    /\ tso < MaxTSO
    /\ tso' = tso + 1
    /\ fakeTS' = tso + 1
    /\ hpc' = "write"
    /\ UNCHANGED <<issued, writing, needGenBinlog, pumpLog>>

\* writeFakeBinlog: getTSO fails and writeFakeBinlog returns
FakeGetTSOErr ==
    /\ hpc = "gen"
    /\ hpc' = "wait"
    /\ UNCHANGED <<tso, issued, writing, needGenBinlog, pumpLog, fakeTS>>

\* writeFakeBinlog: binlogger.WriteTail(payload)
FakeWriteTail ==
    /\ hpc = "write"
    /\ pumpLog' = Append(pumpLog, genFakeBinlog(fakeTS))
    /\ hpc' = "set"
    /\ UNCHANGED <<tso, issued, writing, needGenBinlog, fakeTS>>

\* writeFakeBinlog: s.needGenBinlog.Set(true)
FakeSet ==
    /\ hpc = "set"
    /\ needGenBinlog' = TRUE
    /\ hpc' = "wait"
    /\ UNCHANGED <<tso, issued, writing, pumpLog, fakeTS>>

-----------------------------------------------------------------------------
(* Server.WriteBinlog, with the binlogger of the dispatcher a Proxy *)

\* WriteBinlog calls per behaviour
MaxWrites == 3

\* what the disk does to one binlogger.WriteTail: all goes well, encode fails
\* before anything is stored, or the frame is stored and Seek or rotate fails
DiskOutcomes == {"ok", "encodeErr", "rotateErr"}

\* binlogger.WriteTail(payload) on the log, with its error ("" for nil)
binloggerWriteTail(log, payload, disk) ==
    IF Len(payload) = 0 THEN [log |-> log, err |-> ""]
    ELSE IF disk = "encodeErr" THEN [log |-> log, err |-> "encode"]
    ELSE IF disk = "rotateErr" THEN [log |-> Append(log, payload), err |-> "rotate"]
    ELSE [log |-> Append(log, payload), err |-> ""]

\* Proxy.WriteTail: p.master.WriteTail(payload); nil when p.enableTolerant
ProxyWriteTail(log, payload, disk, tolerant) ==
    LET r == binloggerWriteTail(log, payload, disk)
    IN  [log |-> r.log, err |-> IF tolerant THEN "" ELSE r.err]

InitWB ==
    /\ enableTolerant = FALSE
    /\ master = <<>>
    /\ resps = <<>>
    /\ wpc = "new"

\* NewServer with cfg.enableProxySwitch
NewPumpServer(tolerant) ==
    /\ wpc = "new"
    /\ enableTolerant' = tolerant
    /\ wpc' = "serve"
    /\ UNCHANGED <<master, resps>>

\* WriteBinlog(in): s.needGenBinlog.Set(false), getBinloggerToWrite, WriteTail;
\* resolved says whether getBinloggerToWrite finds or creates the binlogger
WriteBinlog(payload, resolved, disk) ==
    /\ wpc = "serve"
    /\ Len(resps) < MaxWrites
    /\ needGenBinlog' = FALSE
    /\ IF ~resolved
       THEN /\ resps' = Append(resps, [Payload |-> payload, Errmsg |-> "resolve",
                                       failed |-> TRUE, appended |-> FALSE])
            /\ UNCHANGED master
       ELSE LET r == ProxyWriteTail(master, payload, disk, enableTolerant)
            IN  /\ master' = r.log
                /\ resps' = Append(resps, [Payload |-> payload, Errmsg |-> r.err,
                                           failed |-> (Len(payload) > 0 /\ disk # "ok"),
                                           appended |-> (r.log # master)])
    /\ UNCHANGED <<enableTolerant, wpc>>
    /\ UNCHANGED <<tso, issued, writing, pumpLog, hpc, fakeTS>>

NextWB ==
    \/ \E tolerant \in BOOLEAN : NewPumpServer(tolerant) /\ UNCHANGED <<logVars, mergeVars, pullVars, pumpVars, arbVars, gcVars, srvVars, flashVars, reparoVars, pauseVars, ckptVars, schemaVars, readVars, syncVars, tickVars, dispVars, callVars, proxyVars>>
    \/ \E payload \in Payloads : \E resolved \in BOOLEAN : \E disk \in DiskOutcomes :
           WriteBinlog(payload, resolved, disk) /\ UNCHANGED <<logVars, mergeVars, pullVars, arbVars, gcVars, srvVars, flashVars, reparoVars, pauseVars, ckptVars, schemaVars, readVars, syncVars, tickVars, dispVars, callVars, proxyVars>>

-----------------------------------------------------------------------------
(* Server.PullBinlogs, reading the log a WriteBinlog is appending to *)

\* frames the writer begins per behaviour
MaxFrames == 2

\* PullBinlogs: binlogger.ReadFrom(pos, 100)
PullNums == 100

InitSrv ==
    /\ sdir = (0 :> <<>>)
    /\ pendingW = <<>>
    /\ nFrames = 0
    /\ spos = ZeroPos
    /\ batch = <<>>
    /\ stream = <<>>
    /\ spc = "idle"
    /\ endErr = ErrNil

\* binlogger.WriteTail: encode(payload) has put the first k bytes of the frame
\* into the file
SrvWriteBegin(payload, k) ==
    /\ pendingW = <<>>
    /\ nFrames < MaxFrames
    /\ nFrames' = nFrames + 1
    /\ sdir' = [sdir EXCEPT ![seq(sdir)] = @ \o Slice(encode(payload), 1, k)]
    /\ pendingW' = Slice(encode(payload), k + 1, Len(encode(payload)))
    /\ UNCHANGED <<spos, batch, stream, spc, endErr>>

\* binlogger.WriteTail: the rest of the frame reaches the file
SrvWriteRest ==
    /\ pendingW # <<>>
    /\ sdir' = [sdir EXCEPT ![seq(sdir)] = @ \o pendingW]
    /\ pendingW' = <<>>
    /\ UNCHANGED <<nFrames, spos, batch, stream, spc, endErr>>

\* PullBinlogs(in, stream): getBinloggerToRead, pos := in.StartFrom
PullBinlogs(found) ==
    /\ spc = "idle"
    /\ IF found
       THEN /\ spc' = "read"
            /\ UNCHANGED endErr
       ELSE /\ spc' = "ended"
            /\ endErr' = "NotFound"
    /\ UNCHANGED <<sdir, pendingW, nFrames, spos, batch, stream>>

\* PullBinlogs: binlogger.ReadFrom(pos, 100); ioErr is a failure to list the
\* directory or to open or seek a file
PullReadFrom(ioErr) ==
    /\ spc = "read"
    /\ LET r == IF ioErr THEN [err |-> "io", ents |-> <<>>]
                ELSE ReadFrom(sdir, spos, PullNums, FALSE)
       IN  IF r.err # ErrNil
           THEN /\ spc' = "ended"
                /\ endErr' = r.err
                /\ UNCHANGED batch
           ELSE /\ spc' = "send"
                /\ batch' = r.ents
                /\ UNCHANGED endErr
    /\ UNCHANGED <<sdir, pendingW, nFrames, spos, stream>>

\* PullBinlogs: one turn of the range over binlogs, stream.Send(resp)
PullStreamSend(ok) ==
    /\ spc = "send"
    /\ batch # <<>>
    /\ LET bl == Head(batch)
       IN  /\ spos' = [Suffix |-> bl.Pos.Suffix,
                       Offset |-> bl.Pos.Offset + Len(bl.Payload) + 16]
           /\ IF ok
              THEN /\ stream' = Append(stream, bl)
                   /\ batch' = Tail(batch)
                   /\ UNCHANGED <<spc, endErr>>
              ELSE /\ spc' = "ended"
                   /\ endErr' = "send"
                   /\ UNCHANGED <<stream, batch>>
    /\ UNCHANGED <<sdir, pendingW, nFrames>>

\* PullBinlogs: time.Sleep(pullBinlogInterval), then the next ReadFrom
PullSleep ==
    /\ spc = "send"
    /\ batch = <<>>
    /\ spc' = "read"
    /\ UNCHANGED <<sdir, pendingW, nFrames, spos, batch, stream, endErr>>

NextSrv ==
    \/ \E payload \in Payloads \ {<<>>} : \E k \in 1..Len(encode(payload)) :
           SrvWriteBegin(payload, k) /\ UNCHANGED <<logVars, mergeVars, pullVars, pumpVars, arbVars, gcVars, wbVars, flashVars, reparoVars, pauseVars, ckptVars, schemaVars, readVars, syncVars, tickVars, dispVars, callVars, proxyVars>>
    \/ SrvWriteRest /\ UNCHANGED <<logVars, mergeVars, pullVars, pumpVars, arbVars, gcVars, wbVars, flashVars, reparoVars, pauseVars, ckptVars, schemaVars, readVars, syncVars, tickVars, dispVars, callVars, proxyVars>>
    \/ \E found \in BOOLEAN : PullBinlogs(found) /\ UNCHANGED <<logVars, mergeVars, pullVars, pumpVars, arbVars, gcVars, wbVars, flashVars, reparoVars, pauseVars, ckptVars, schemaVars, readVars, syncVars, tickVars, dispVars, callVars, proxyVars>>
    \/ \E ioErr \in BOOLEAN : PullReadFrom(ioErr) /\ UNCHANGED <<logVars, mergeVars, pullVars, pumpVars, arbVars, gcVars, wbVars, flashVars, reparoVars, pauseVars, ckptVars, schemaVars, readVars, syncVars, tickVars, dispVars, callVars, proxyVars>>
    \/ \E ok \in BOOLEAN : PullStreamSend(ok) /\ UNCHANGED <<logVars, mergeVars, pullVars, pumpVars, arbVars, gcVars, wbVars, flashVars, reparoVars, pauseVars, ckptVars, schemaVars, readVars, syncVars, tickVars, dispVars, callVars, proxyVars>>
    \/ PullSleep /\ UNCHANGED <<logVars, mergeVars, pullVars, pumpVars, arbVars, gcVars, wbVars, flashVars, reparoVars, pauseVars, ckptVars, schemaVars, readVars, syncVars, tickVars, dispVars, callVars, proxyVars>>

-----------------------------------------------------------------------------
(* drainer/sync/flash.go: FlashSyncer *)

\* Sync calls per behaviour
MaxItems == 3
\* rows of one DML item
MaxRows == 2
\* len(e.dbs)
NumDBs == 2
\* cfg.SizeLimit
sizeLimit == 2

DBs == 0..(NumDBs - 1)

\* FlashSyncer.partition
partition(key) == key % NumDBs

\* the rows GenFlashSQLs makes of item i
RowsOf(i, n) == [k \in 1..n |-> [item |-> i, key |-> i + k]]

RowsEvent(rows) == [kind |-> "rows", rows |-> rows, item |-> 0, db |-> 0]
DDLEvent(i, d) == [kind |-> "ddl", rows |-> {}, item |-> i, db |-> d]

\* Sync's range over the rows from row k on: AddRow, and Flush of the batch
\* that has reached sizeLimit; the Flush to a db of bad fails after its
\* retries, AddRow fails at row addErrAt
RECURSIVE addRows(_, _, _, _, _)
addRows(rows, k, st, bad, addErrAt) ==
    IF k > Len(rows) THEN st
    ELSE IF addErrAt = k THEN [st EXCEPT !.err = TRUE]
    ELSE LET hashKey == partition(rows[k].key)
             rb == st.b[hashKey] \cup {rows[k]}
         IN  IF Cardinality(rb) >= sizeLimit
             THEN IF hashKey \in bad
                  THEN [st EXCEPT !.b[hashKey] = rb, !.err = TRUE]
                  ELSE addRows(rows, k + 1,
                               [st EXCEPT !.b[hashKey] = {},
                                          !.down = Append(@, RowsEvent(rb))],
                               bad, addErrAt)
             ELSE addRows(rows, k + 1, [st EXCEPT !.b[hashKey] = rb], bad, addErrAt)

\* flushAll's range over the batches, from db d on
RECURSIVE flushBatches(_, _, _)
flushBatches(d, st, bad) ==
    IF d >= NumDBs THEN st
    ELSE IF st.b[d] = {} THEN flushBatches(d + 1, st, bad)
    ELSE IF d \in bad THEN [st EXCEPT !.err = TRUE]
    ELSE flushBatches(d + 1,
                      [st EXCEPT !.b[d] = {}, !.down = Append(@, RowsEvent(st.b[d]))],
                      bad)

\* a flushAll that sends the items on e.success whether the flush succeeded or not
flushAll_ackAlways(st, bad) ==
    LET f == flushBatches(0, [st EXCEPT !.err = FALSE], bad)
    IN  [f EXCEPT !.success = @ \o f.items, !.items = <<>>]

\* flushAll: every batch is flushed, then every item of e.items is sent on
\* e.success; st.err is flushAll's returned error
flushAll(st, bad) ==
    LET f == flushBatches(0, [st EXCEPT !.err = FALSE], bad)
    IN  IF f.err THEN f
        ELSE [f EXCEPT !.success = @ \o f.items, !.items = <<>>]

\* a Sync that executes a DDL without flushing the row batches
ddlFlush_none(st, bad) == [st EXCEPT !.err = FALSE]

\* Sync of a DDL: e.err = e.flushAll()
ddlFlush(st, bad) == flushAll(st, bad)

\* Sync of a DDL: ExecuteSQLs on every db in turn, e.success <- item after each;
\* the db execAt fails
RECURSIVE execDDL(_, _, _, _)
execDDL(i, d, st, execAt) ==
    IF d >= NumDBs THEN st
    ELSE IF d = execAt THEN [st EXCEPT !.err = TRUE]
    ELSE execDDL(i, d + 1,
                 [st EXCEPT !.down = Append(@, DDLEvent(i, d)),
                            !.success = Append(@, i)],
                 execAt)

FlashState ==
    [b |-> rowBatches, down |-> fdown, err |-> ferr, items |-> fitems, success |-> fsuccess]

SetFlashState(st) ==
    /\ rowBatches' = st.b
    /\ fdown' = st.down
    /\ ferr' = st.err
    /\ fitems' = st.items
    /\ fsuccess' = st.success

\* NewFlashSyncer
InitFlash ==
    /\ rowBatches = [d \in DBs |-> {}]
    /\ fitems = <<>>
    /\ fsuccess = <<>>
    /\ ferr = FALSE
    /\ fdown = <<>>
    /\ freceived = <<>>
    /\ frpc = "wait"

\* Sync(item) of a DML item with n rows; genErr: GenFlashSQLs fails
SyncDML(n, genErr, bad, addErrAt) ==
    /\ Len(freceived) < MaxItems
    /\ LET i == Len(freceived) + 1
           rows == RowsOf(i, n)
           rec(ok) == [kind |-> "dml", rows |-> {rows[k] : k \in 1..n}, ok |-> ok]
       IN  IF ferr \/ genErr
           THEN /\ freceived' = Append(freceived, rec(FALSE))
                /\ UNCHANGED <<rowBatches, fitems, fsuccess, ferr, fdown>>
           ELSE LET st == addRows(rows, 1, FlashState, bad, addErrAt)
                IN  /\ freceived' = Append(freceived, rec(~st.err))
                    /\ SetFlashState(IF st.err THEN st
                                     ELSE [st EXCEPT !.items = Append(@, i)])
    /\ UNCHANGED frpc

\* Sync(item) of a DDL item; genErr: GenFlashDDLSQL fails
SyncDDL(genErr, bad, execAt) ==
    /\ Len(freceived) < MaxItems
    /\ LET i == Len(freceived) + 1
           rec(ok) == [kind |-> "ddl", rows |-> {}, ok |-> ok]
       IN  IF ferr
           THEN /\ freceived' = Append(freceived, rec(FALSE))
                /\ UNCHANGED <<rowBatches, fitems, fsuccess, ferr, fdown>>
           ELSE LET f == ddlFlush(FlashState, bad)
                IN  IF f.err \/ genErr
                    THEN /\ freceived' = Append(freceived, rec(FALSE))
                         /\ SetFlashState(f)
                    ELSE LET st == execDDL(i, 0, f, execAt)
                         IN  /\ freceived' = Append(freceived, rec(~st.err))
                             /\ SetFlashState(st)
    /\ UNCHANGED frpc

\* flushRoutine: case <-time.After(e.timeLimit), up to e.Unlock()
FlushTick(bad) ==
    /\ frpc = "wait"
    /\ IF ferr
       THEN /\ frpc' = "exited"
            /\ UNCHANGED <<rowBatches, fitems, fsuccess, ferr, fdown>>
       ELSE LET f == flushAll(FlashState, bad)
            IN  /\ frpc' = IF f.err THEN "seterr" ELSE "wait"
                \* flushAll's error is a local of flushRoutine until setErr
                /\ SetFlashState([f EXCEPT !.err = FALSE])
    /\ UNCHANGED freceived

\* flushRoutine: e.setErr(err) after e.Unlock(), return
FlushSetErr ==
    /\ frpc = "seterr"
    /\ ferr' = TRUE
    /\ frpc' = "exited"
    /\ UNCHANGED <<rowBatches, fitems, fsuccess, fdown, freceived>>

NextFlash ==
    \/ \E n \in 1..MaxRows : \E genErr \in BOOLEAN : \E bad \in SUBSET DBs :
           \E addErrAt \in 0..n : SyncDML(n, genErr, bad, addErrAt) /\ UNCHANGED <<logVars, mergeVars, pullVars, pumpVars, arbVars, gcVars, wbVars, srvVars, reparoVars, pauseVars, ckptVars, schemaVars, readVars, syncVars, tickVars, dispVars, callVars, proxyVars>>
    \/ \E genErr \in BOOLEAN : \E bad \in SUBSET DBs : \E execAt \in 0..NumDBs :
           SyncDDL(genErr, bad, execAt) /\ UNCHANGED <<logVars, mergeVars, pullVars, pumpVars, arbVars, gcVars, wbVars, srvVars, reparoVars, pauseVars, ckptVars, schemaVars, readVars, syncVars, tickVars, dispVars, callVars, proxyVars>>
    \/ \E bad \in SUBSET DBs : FlushTick(bad) /\ UNCHANGED <<logVars, mergeVars, pullVars, pumpVars, arbVars, gcVars, wbVars, srvVars, reparoVars, pauseVars, ckptVars, schemaVars, readVars, syncVars, tickVars, dispVars, callVars, proxyVars>>
    \/ FlushSetErr /\ UNCHANGED <<logVars, mergeVars, pullVars, pumpVars, arbVars, gcVars, wbVars, srvVars, reparoVars, pauseVars, ckptVars, schemaVars, readVars, syncVars, tickVars, dispVars, callVars, proxyVars>>

-----------------------------------------------------------------------------
(* reparo's mysqlSyncer: Sync, Close, runLoader; the loader as the            *)
(* specification describes it                                                *)

\* the goroutines that call Sync
NumCallers == 2
\* Sync calls made in all
MaxSyncs == 3
Callers == 1..NumCallers
\* the error of the loader's Run
LoaderRunErr == "MySQLSyncerMockTest"
ErrPbBinlogToTxn == "pbBinlogToTxn failed"

\* runLoader: m.loaderErr after Run returned err
runLoaderErr_keep(err, old) == old
runLoaderErr(err, old) == IF err # ErrNil THEN err ELSE old

\* newMysqlSyncer: the syncer after runLoader has started both goroutines
InitReparo ==
    /\ syncPc = [c \in Callers |-> "idle"]
    /\ syncRet = [c \in Callers |-> "none"]
    /\ syncAt = [c \in Callers |-> "none"]
    /\ nSyncs = 0
    /\ loaderPc = "running"
    /\ runRet = "none"
    /\ loaderTxns = 0
    /\ loaderSuccClosed = FALSE
    /\ inputClosed = FALSE
    /\ succPc = "range"
    /\ callbacks = 0
    /\ runGoPc = "run"
    /\ loaderErr = ErrNil
    /\ loaderQuit = "open"
    /\ closePc = "none"
    /\ closeRet = "none"

\* Sync up to its select: pbBinlogToTxn converts the binlog or fails
SyncCall(c, converts) ==
    /\ syncPc[c] = "idle"
    /\ closePc = "none"
    /\ nSyncs < MaxSyncs
    /\ nSyncs' = nSyncs + 1
    /\ IF converts
         THEN /\ syncPc' = [syncPc EXCEPT ![c] = "select"]
              /\ syncRet' = [syncRet EXCEPT ![c] = "none"]
              /\ syncAt' = [syncAt EXCEPT ![c] = IF loaderPc = "returned" THEN "after" ELSE "before"]
         ELSE /\ syncRet' = [syncRet EXCEPT ![c] = ErrPbBinlogToTxn]
              /\ syncAt' = [syncAt EXCEPT ![c] = "none"]
              /\ UNCHANGED syncPc
    /\ UNCHANGED <<loaderPc, runRet, loaderTxns, loaderSuccClosed, inputClosed, succPc,
                   callbacks, runGoPc, loaderErr, loaderQuit, closePc, closeRet>>

\* Sync's case m.loader.Input() <- txn: the running loader receives the txn
SyncInput(c) ==
    /\ syncPc[c] = "select"
    /\ loaderPc = "running"
    /\ ~inputClosed
    /\ loaderTxns' = loaderTxns + 1
    /\ syncPc' = [syncPc EXCEPT ![c] = "idle"]
    /\ syncRet' = [syncRet EXCEPT ![c] = ErrNil]
    /\ UNCHANGED <<syncAt, nSyncs, loaderPc, runRet, loaderSuccClosed, inputClosed, succPc,
                   callbacks, runGoPc, loaderErr, loaderQuit, closePc, closeRet>>

\* Sync's case <-m.loaderQuit
SyncLoaderQuit(c) ==
    /\ syncPc[c] = "select"
    /\ loaderQuit = "closed"
    /\ syncPc' = [syncPc EXCEPT ![c] = "idle"]
    /\ syncRet' = [syncRet EXCEPT ![c] = loaderErr]
    /\ UNCHANGED <<syncAt, nSyncs, loaderPc, runRet, loaderTxns, loaderSuccClosed, inputClosed,
                   succPc, callbacks, runGoPc, loaderErr, loaderQuit, closePc, closeRet>>

\* the loader has committed a txn and runLoader's first goroutine receives it
LoaderSuccess ==
    /\ loaderPc = "running"
    /\ loaderTxns > 0
    /\ succPc = "range"
    /\ loaderTxns' = loaderTxns - 1
    /\ succPc' = "cb"
    /\ UNCHANGED <<syncPc, syncRet, syncAt, nSyncs, loaderPc, runRet, loaderSuccClosed,
                   inputClosed, callbacks, runGoPc, loaderErr, loaderQuit, closePc, closeRet>>

\* runLoader's first goroutine: item.cb(item.binlog)
SuccCallback ==
    /\ succPc = "cb"
    /\ callbacks' = callbacks + 1
    /\ succPc' = "range"
    /\ UNCHANGED <<syncPc, syncRet, syncAt, nSyncs, loaderPc, runRet, loaderTxns,
                   loaderSuccClosed, inputClosed, runGoPc, loaderErr, loaderQuit, closePc,
                   closeRet>>

\* runLoader's first goroutine: the range ends, wg.Done()
SuccQuit ==
    /\ succPc = "range"
    /\ loaderSuccClosed
    /\ succPc' = "done"
    /\ UNCHANGED <<syncPc, syncRet, syncAt, nSyncs, loaderPc, runRet, loaderTxns,
                   loaderSuccClosed, inputClosed, callbacks, runGoPc, loaderErr, loaderQuit,
                   closePc, closeRet>>

\* the loader's Run fails: it closes Successes and returns the error
LoaderRunFail ==
    /\ loaderPc = "running"
    /\ loaderPc' = "returned"
    /\ runRet' = LoaderRunErr
    /\ loaderSuccClosed' = TRUE
    /\ UNCHANGED <<syncPc, syncRet, syncAt, nSyncs, loaderTxns, inputClosed, succPc,
                   callbacks, runGoPc, loaderErr, loaderQuit, closePc, closeRet>>

\* the loader's Run after Close: all txns are committed, it closes Successes, returns nil
LoaderRunEnd ==
    /\ loaderPc = "running"
    /\ inputClosed
    /\ loaderTxns = 0
    /\ loaderPc' = "returned"
    /\ runRet' = ErrNil
    /\ loaderSuccClosed' = TRUE
    /\ UNCHANGED <<syncPc, syncRet, syncAt, nSyncs, loaderTxns, inputClosed, succPc,
                   callbacks, runGoPc, loaderErr, loaderQuit, closePc, closeRet>>

\* runLoader's second goroutine: err := m.loader.Run(); if err != nil { m.loaderErr = err }
RunLoaderReturned ==
    /\ runGoPc = "run"
    /\ loaderPc = "returned"
    /\ loaderErr' = runLoaderErr(runRet, loaderErr)
    /\ runGoPc' = "wait"
    /\ UNCHANGED <<syncPc, syncRet, syncAt, nSyncs, loaderPc, runRet, loaderTxns,
                   loaderSuccClosed, inputClosed, succPc, callbacks, loaderQuit, closePc,
                   closeRet>>

\* runLoader's second goroutine: wg.Wait(); close(m.loaderQuit)
RunLoaderQuit ==
    /\ runGoPc = "wait"
    /\ succPc = "done"
    /\ loaderQuit' = "closed"
    /\ runGoPc' = "done"
    /\ UNCHANGED <<syncPc, syncRet, syncAt, nSyncs, loaderPc, runRet, loaderTxns,
                   loaderSuccClosed, inputClosed, succPc, callbacks, loaderErr, closePc,
                   closeRet>>

\* Close: m.loader.Close(), called when no Sync is in progress
ReparoClose ==
    /\ closePc = "none"
    /\ \A c \in Callers : syncPc[c] = "idle"
    /\ inputClosed' = TRUE
    /\ closePc' = "wait"
    /\ UNCHANGED <<syncPc, syncRet, syncAt, nSyncs, loaderPc, runRet, loaderTxns,
                   loaderSuccClosed, succPc, callbacks, runGoPc, loaderErr, loaderQuit,
                   closeRet>>

\* Close: <-m.loaderQuit; m.db.Close(); return m.loaderErr
ReparoCloseReturn ==
    /\ closePc = "wait"
    /\ loaderQuit = "closed"
    /\ closePc' = "returned"
    /\ closeRet' = loaderErr
    /\ UNCHANGED <<syncPc, syncRet, syncAt, nSyncs, loaderPc, runRet, loaderTxns,
                   loaderSuccClosed, inputClosed, succPc, callbacks, runGoPc, loaderErr,
                   loaderQuit>>

ReparoRest == UNCHANGED <<logVars, mergeVars, pullVars, pumpVars, arbVars, gcVars, wbVars, srvVars, flashVars, pauseVars, ckptVars, schemaVars, readVars, syncVars, tickVars, dispVars, callVars, proxyVars>>

NextReparo ==
    \/ \E c \in Callers : \E converts \in BOOLEAN : SyncCall(c, converts) /\ UNCHANGED <<logVars, mergeVars, pullVars, pumpVars, arbVars, gcVars, wbVars, srvVars, flashVars, pauseVars, ckptVars, schemaVars, readVars, syncVars, tickVars, dispVars, callVars, proxyVars>>
    \/ \E c \in Callers : SyncInput(c) /\ UNCHANGED <<logVars, mergeVars, pullVars, pumpVars, arbVars, gcVars, wbVars, srvVars, flashVars, pauseVars, ckptVars, schemaVars, readVars, syncVars, tickVars, dispVars, callVars, proxyVars>>
    \/ \E c \in Callers : SyncLoaderQuit(c) /\ UNCHANGED <<logVars, mergeVars, pullVars, pumpVars, arbVars, gcVars, wbVars, srvVars, flashVars, pauseVars, ckptVars, schemaVars, readVars, syncVars, tickVars, dispVars, callVars, proxyVars>>
    \/ LoaderSuccess /\ UNCHANGED <<logVars, mergeVars, pullVars, pumpVars, arbVars, gcVars, wbVars, srvVars, flashVars, pauseVars, ckptVars, schemaVars, readVars, syncVars, tickVars, dispVars, callVars, proxyVars>>
    \/ SuccCallback /\ UNCHANGED <<logVars, mergeVars, pullVars, pumpVars, arbVars, gcVars, wbVars, srvVars, flashVars, pauseVars, ckptVars, schemaVars, readVars, syncVars, tickVars, dispVars, callVars, proxyVars>>
    \/ SuccQuit /\ UNCHANGED <<logVars, mergeVars, pullVars, pumpVars, arbVars, gcVars, wbVars, srvVars, flashVars, pauseVars, ckptVars, schemaVars, readVars, syncVars, tickVars, dispVars, callVars, proxyVars>>
    \/ LoaderRunFail /\ UNCHANGED <<logVars, mergeVars, pullVars, pumpVars, arbVars, gcVars, wbVars, srvVars, flashVars, pauseVars, ckptVars, schemaVars, readVars, syncVars, tickVars, dispVars, callVars, proxyVars>>
    \/ LoaderRunEnd /\ UNCHANGED <<logVars, mergeVars, pullVars, pumpVars, arbVars, gcVars, wbVars, srvVars, flashVars, pauseVars, ckptVars, schemaVars, readVars, syncVars, tickVars, dispVars, callVars, proxyVars>>
    \/ RunLoaderReturned /\ UNCHANGED <<logVars, mergeVars, pullVars, pumpVars, arbVars, gcVars, wbVars, srvVars, flashVars, pauseVars, ckptVars, schemaVars, readVars, syncVars, tickVars, dispVars, callVars, proxyVars>>
    \/ RunLoaderQuit /\ UNCHANGED <<logVars, mergeVars, pullVars, pumpVars, arbVars, gcVars, wbVars, srvVars, flashVars, pauseVars, ckptVars, schemaVars, readVars, syncVars, tickVars, dispVars, callVars, proxyVars>>
    \/ ReparoClose /\ UNCHANGED <<logVars, mergeVars, pullVars, pumpVars, arbVars, gcVars, wbVars, srvVars, flashVars, pauseVars, ckptVars, schemaVars, readVars, syncVars, tickVars, dispVars, callVars, proxyVars>>
    \/ ReparoCloseReturn /\ UNCHANGED <<logVars, mergeVars, pullVars, pumpVars, arbVars, gcVars, wbVars, srvVars, flashVars, pauseVars, ckptVars, schemaVars, readVars, syncVars, tickVars, dispVars, callVars, proxyVars>>

-----------------------------------------------------------------------------
(* arbiter server: NewServer, Run, syncBinlogs, with the loader and the       *)
(* checkpoint as the specification describes them                            *)

\* the transactions in the upstream topic have the commitTs 1..MaxTxn
MaxTxn == 2
\* the loader's WorkerCount
WorkerCount == 2
\* Save calls of the ticker kept in the history
MaxSaves == 2
\* runs of the server per behaviour
MaxRuns == 2

\* cfg.Up.InitialCommitTS
InitialCommitTS == 0

StatusNormal == "Normal"
StatusRunning == "Running"

NotFound == [found |-> FALSE, ts |-> 0, status |-> StatusNormal]

\* Checkpoint.Save(ts, status): the one row of the topic is replaced
Save(ts, status) == [found |-> TRUE, ts |-> ts, status |-> status]

\* the worker a transaction's causality group hashes to
WorkerOf(ts) == (ts % WorkerCount) + 1

Workers == 1..WorkerCount

\* a server that starts from cfg.Up.InitialCommitTS whatever the checkpoint holds
startTS_initial(cp) == InitialCommitTS

\* NewServer: srv.finishTS = up.InitialCommitTS, replaced by the loaded ts when
\* Load finds a checkpoint
startTS(cp) == IF cp.found THEN cp.ts ELSE InitialCommitTS

InitArb ==
    /\ checkpoint = NotFound
    /\ loaded = NotFound
    /\ finishTS = InitialCommitTS
    /\ safeMode = FALSE
    /\ readerNext = InitialCommitTS + 1
    /\ readerClosed = FALSE
    /\ syncpc = "recv"
    /\ syncTxn = 0
    /\ ldInput = <<>>
    /\ ldClosed = FALSE
    /\ ldQueues = [w \in Workers |-> <<>>]
    /\ successes = [items |-> <<>>, closed |-> FALSE]
    /\ supDone = FALSE
    /\ apc = "run"
    /\ runNo = 1
    /\ applied = {}
    /\ appliedRun = {}
    /\ saves = <<>>

\* NewServer after the process stopped: Load, the reader's CommitTS, safe mode
NewArbServer ==
    /\ apc \in {"stopped", "killed"}
    /\ runNo < MaxRuns
    /\ runNo' = runNo + 1
    /\ loaded' = checkpoint
    /\ finishTS' = startTS(checkpoint)
    \* reader.Config.CommitTS: the reader passes on the messages above it
    /\ readerNext' = startTS(checkpoint) + 1
    /\ safeMode' = (checkpoint.found /\ checkpoint.status = StatusRunning)
    /\ readerClosed' = FALSE
    /\ syncpc' = "recv"
    /\ syncTxn' = 0
    /\ ldInput' = <<>>
    /\ ldClosed' = FALSE
    /\ ldQueues' = [w \in Workers |-> <<>>]
    /\ successes' = [items |-> <<>>, closed |-> FALSE]
    /\ supDone' = FALSE
    /\ apc' = "run"
    /\ appliedRun' = {}
    /\ saves' = <<>>
    /\ UNCHANGED <<checkpoint, applied>>

\* Server.Close: s.kafkaReader.Close()
ArbClose ==
    /\ apc = "run"
    /\ ~readerClosed
    /\ readerClosed' = TRUE
    /\ UNCHANGED <<checkpoint, loaded, finishTS, safeMode, readerNext, syncpc, syncTxn,
                   ldInput, ldClosed, ldQueues, successes, supDone, apc, runNo,
                   applied, appliedRun, saves>>

\* the process is killed
ArbKill ==
    /\ apc = "run"
    /\ apc' = "killed"
    /\ UNCHANGED <<checkpoint, loaded, finishTS, safeMode, readerNext, readerClosed,
                   syncpc, syncTxn, ldInput, ldClosed, ldQueues, successes, supDone,
                   runNo, applied, appliedRun, saves>>

\* syncBinlogs: for msg := range source
SyncRecv ==
    /\ apc = "run"
    /\ syncpc = "recv"
    /\ ~readerClosed
    /\ readerNext <= MaxTxn
    /\ syncTxn' = readerNext
    /\ readerNext' = readerNext + 1
    /\ syncpc' = "first"
    /\ UNCHANGED <<checkpoint, loaded, finishTS, safeMode, readerClosed, ldInput,
                   ldClosed, ldQueues, successes, supDone, apc, runNo, applied, appliedRun, saves>>

\* syncBinlogs: dest <- txn
SyncSend ==
    /\ apc = "run"
    /\ syncpc = "first"
    /\ ldInput' = Append(ldInput, syncTxn)
    /\ syncpc' = "second"
    /\ UNCHANGED <<checkpoint, loaded, finishTS, safeMode, readerNext, readerClosed,
                   syncTxn, ldClosed, ldQueues, successes, supDone, apc, runNo,
                   applied, appliedRun, saves>>

\* syncBinlogs: select { case dest <- txn: ... }, the same txn a second time
SyncSendAgain ==
    /\ apc = "run"
    /\ syncpc = "second"
    /\ ldInput' = Append(ldInput, syncTxn)
    /\ syncpc' = "recv"
    /\ UNCHANGED <<checkpoint, loaded, finishTS, safeMode, readerNext, readerClosed,
                   syncTxn, ldClosed, ldQueues, successes, supDone, apc, runNo,
                   applied, appliedRun, saves>>

\* syncBinlogs: the source is closed, the range ends, ld.Close()
SyncReturn ==
    /\ apc = "run"
    /\ syncpc = "recv"
    /\ readerClosed
    /\ syncpc' = "done"
    /\ ldClosed' = TRUE
    /\ UNCHANGED <<checkpoint, loaded, finishTS, safeMode, readerNext, readerClosed,
                   syncTxn, ldInput, ldQueues, successes, supDone, apc, runNo,
                   applied, appliedRun, saves>>

\* the loader hands the next txn of its input to the worker of its causality group
LoaderDispatch ==
    /\ apc = "run"
    /\ ldInput # <<>>
    /\ ldInput' = Tail(ldInput)
    /\ ldQueues' = [ldQueues EXCEPT ![WorkerOf(Head(ldInput))] = Append(@, Head(ldInput))]
    /\ UNCHANGED <<checkpoint, loaded, finishTS, safeMode, readerNext, readerClosed,
                   syncpc, syncTxn, ldClosed, successes, supDone, apc, runNo,
                   applied, appliedRun, saves>>

\* a worker commits its next txn downstream and forwards it on Successes
WorkerCommit(w) ==
    /\ apc = "run"
    /\ ldQueues[w] # <<>>
    /\ ldQueues' = [ldQueues EXCEPT ![w] = Tail(@)]
    /\ applied' = applied \cup {Head(ldQueues[w])}
    /\ appliedRun' = appliedRun \cup {Head(ldQueues[w])}
    /\ successes' = [successes EXCEPT !.items = Append(@, Head(ldQueues[w]))]
    /\ UNCHANGED <<checkpoint, loaded, finishTS, safeMode, readerNext, readerClosed,
                   syncpc, syncTxn, ldInput, ldClosed, supDone, apc, runNo, saves>>

\* the loader is closed and drained: load.Run returns nil and Successes is closed
LoaderReturn ==
    /\ apc = "run"
    /\ ldClosed
    /\ ldInput = <<>>
    /\ \A w \in Workers : ldQueues[w] = <<>>
    /\ ~successes.closed
    /\ successes' = [successes EXCEPT !.closed = TRUE]
    /\ UNCHANGED <<checkpoint, loaded, finishTS, safeMode, readerNext, readerClosed,
                   syncpc, syncTxn, ldInput, ldClosed, ldQueues, supDone, apc, runNo,
                   applied, appliedRun, saves>>

\* Run's first goroutine: case txn, ok := <-s.load.Successes() with ok:
\* s.finishTS = msg.Binlog.CommitTs
SupSuccess ==
    /\ apc = "run"
    /\ ~supDone
    /\ successes.items # <<>>
    /\ finishTS' = Head(successes.items)
    /\ successes' = [successes EXCEPT !.items = Tail(@)]
    /\ UNCHANGED <<checkpoint, loaded, safeMode, readerNext, readerClosed, syncpc,
                   syncTxn, ldInput, ldClosed, ldQueues, supDone, apc, runNo,
                   applied, appliedRun, saves>>

\* Run's first goroutine: case <-saveTick.C: s.checkpoint.Save(s.finishTS, StatusRunning)
SupTick ==
    /\ apc = "run"
    /\ ~supDone
    /\ Len(saves) < MaxSaves
    /\ checkpoint' = Save(finishTS, StatusRunning)
    /\ saves' = Append(saves, finishTS)
    /\ UNCHANGED <<loaded, finishTS, safeMode, readerNext, readerClosed, syncpc,
                   syncTxn, ldInput, ldClosed, ldQueues, successes, supDone, apc,
                   runNo, applied, appliedRun>>

\* Run's first goroutine: Successes is closed and empty, return
SupReturn ==
    /\ apc = "run"
    /\ ~supDone
    /\ successes.items = <<>>
    /\ successes.closed
    /\ supDone' = TRUE
    /\ UNCHANGED <<checkpoint, loaded, finishTS, safeMode, readerNext, readerClosed,
                   syncpc, syncTxn, ldInput, ldClosed, ldQueues, successes, apc,
                   runNo, applied, appliedRun, saves>>

\* Run after wg.Wait() with no error: s.checkpoint.Save(s.finishTS, StatusNormal)
RunReturn ==
    /\ apc = "run"
    /\ supDone
    /\ syncpc = "done"
    /\ checkpoint' = Save(finishTS, StatusNormal)
    /\ apc' = "stopped"
    /\ UNCHANGED <<loaded, finishTS, safeMode, readerNext, readerClosed, syncpc,
                   syncTxn, ldInput, ldClosed, ldQueues, successes, supDone, runNo,
                   applied, appliedRun, saves>>

-----------------------------------------------------------------------------
(* drainer/checkpoint/pb.go: PbCheckPoint over its file, and the arbiter's    *)
(* Checkpoint over its table as the specification describes it               *)

\* the largest commitTs passed to Save
MaxCkptTS == 2
CkptTSs == 0..MaxCkptTS
\* cfg.InitialCommitTS of the drainer
PbInitialTSs == {0, MaxCkptTS + 1}
ErrCheckPointClosed == "ErrCheckPointClosed"
ErrSaveFile == "WriteFileAtomic failed"
ErrNotFound == "NotFound"
\* no checkpoint file
NoFile == [exists |-> FALSE, commitTS |-> 0]
\* no Save has succeeded
\* failed: whether some Save on the store has returned an error
NoSave == [saved |-> FALSE, ts |-> 0, status |-> StatusNormal, failed |-> FALSE]
Saved(ts, status, failed) == [saved |-> TRUE, ts |-> ts, status |-> status, failed |-> failed]

\* a Load that always falls back to initialCommitTS
loadCommitTS_initial(cur, initial) == initial

\* Load's deferred function: if sp.CommitTS == 0 { sp.CommitTS = sp.initialCommitTS }
loadCommitTS(cur, initial) == IF cur = 0 THEN initial ELSE cur

\* toml.DecodeReader(file, sp): the file's commitTS goes into sp.CommitTS
pbDecode(file, cur) == IF file.exists THEN file.commitTS ELSE cur

\* e.Encode(sp): the exported field CommitTS
pbEncode(ts) == [exists |-> TRUE, commitTS |-> ts]

InitCkpt ==
    /\ pbpc = "none"
    /\ pbFile = NoFile
    /\ pbCommitTS = 0
    /\ pbInitial = 0
    /\ pbClosed = FALSE
    /\ pbRet = [op |-> "none", err |-> ErrNil]
    /\ pbLast = NoSave
    /\ cpRow = NotFound
    /\ cpRet = [op |-> "none", err |-> ErrNil, ts |-> 0, status |-> StatusNormal]
    /\ cpLast = NoSave

\* PbCheckPoint.Load
PbLoad ==
    /\ pbpc = "open"
    /\ IF pbClosed
       THEN /\ pbRet' = [op |-> "Load", err |-> ErrCheckPointClosed]
            /\ UNCHANGED pbCommitTS
       ELSE /\ pbCommitTS' = loadCommitTS(pbDecode(pbFile, pbCommitTS), pbInitial)
            /\ pbRet' = [op |-> "Load", err |-> ErrNil]
    /\ UNCHANGED <<pbpc, pbFile, pbInitial, pbClosed, pbLast, cpRow, cpRet, cpLast>>

\* newPb(cfg): the object over cfg.CheckPointFile, and its first Load
NewPb(initial) ==
    /\ pbpc = "none"
    /\ pbpc' = "open"
    /\ pbInitial' = initial
    /\ pbCommitTS' = loadCommitTS(pbDecode(pbFile, 0), initial)
    /\ pbRet' = [op |-> "newPb", err |-> ErrNil]
    /\ UNCHANGED <<pbFile, pbClosed, pbLast, cpRow, cpRet, cpLast>>

\* PbCheckPoint.Save(ts); WriteFileAtomic replaces the file or fails and leaves it
PbSave(ts, renamed) ==
    /\ pbpc = "open"
    /\ IF pbClosed
       THEN /\ pbRet' = [op |-> "Save", err |-> ErrCheckPointClosed]
            /\ UNCHANGED <<pbCommitTS, pbFile, pbLast>>
       ELSE /\ pbCommitTS' = ts
            /\ IF renamed
               THEN /\ pbFile' = pbEncode(ts)
                    /\ pbLast' = Saved(ts, StatusNormal, pbLast.failed)
                    /\ pbRet' = [op |-> "Save", err |-> ErrNil]
               ELSE /\ pbRet' = [op |-> "Save", err |-> ErrSaveFile]
                    /\ pbLast' = [pbLast EXCEPT !.failed = TRUE]
                    /\ UNCHANGED pbFile
    /\ UNCHANGED <<pbpc, pbInitial, pbClosed, cpRow, cpRet, cpLast>>

\* PbCheckPoint.Close
PbClose ==
    /\ pbpc = "open"
    /\ pbClosed' = TRUE
    /\ pbRet' = [op |-> "Close", err |-> IF pbClosed THEN ErrCheckPointClosed ELSE ErrNil]
    /\ UNCHANGED <<pbpc, pbFile, pbCommitTS, pbInitial, pbLast, cpRow, cpRet, cpLast>>

\* the arbiter's Checkpoint.Save(ts, status)
CpSave(ts, status) ==
    /\ cpRow' = Save(ts, status)
    /\ cpLast' = Saved(ts, status, FALSE)
    /\ cpRet' = [op |-> "Save", err |-> ErrNil, ts |-> 0, status |-> StatusNormal]
    /\ UNCHANGED <<pbpc, pbFile, pbCommitTS, pbInitial, pbClosed, pbRet, pbLast>>

\* the arbiter's Checkpoint.Load
CpLoad ==
    /\ cpRet' = IF cpRow.found
                THEN [op |-> "Load", err |-> ErrNil, ts |-> cpRow.ts, status |-> cpRow.status]
                ELSE [op |-> "Load", err |-> ErrNotFound, ts |-> 0, status |-> StatusNormal]
    /\ UNCHANGED <<pbpc, pbFile, pbCommitTS, pbInitial, pbClosed, pbRet, pbLast, cpRow, cpLast>>

NextCkpt ==
    \/ \E initial \in PbInitialTSs : NewPb(initial) /\ UNCHANGED <<logVars, mergeVars, pullVars, pumpVars, arbVars, gcVars, wbVars, srvVars, flashVars, reparoVars, pauseVars, schemaVars, readVars, syncVars, tickVars, dispVars, callVars, proxyVars>>
    \/ PbLoad /\ UNCHANGED <<logVars, mergeVars, pullVars, pumpVars, arbVars, gcVars, wbVars, srvVars, flashVars, reparoVars, pauseVars, schemaVars, readVars, syncVars, tickVars, dispVars, callVars, proxyVars>>
    \/ \E ts \in CkptTSs : \E renamed \in BOOLEAN : PbSave(ts, renamed) /\ UNCHANGED <<logVars, mergeVars, pullVars, pumpVars, arbVars, gcVars, wbVars, srvVars, flashVars, reparoVars, pauseVars, schemaVars, readVars, syncVars, tickVars, dispVars, callVars, proxyVars>>
    \/ PbClose /\ UNCHANGED <<logVars, mergeVars, pullVars, pumpVars, arbVars, gcVars, wbVars, srvVars, flashVars, reparoVars, pauseVars, schemaVars, readVars, syncVars, tickVars, dispVars, callVars, proxyVars>>
    \/ \E ts \in CkptTSs : \E status \in {StatusNormal, StatusRunning} : CpSave(ts, status) /\ UNCHANGED <<logVars, mergeVars, pullVars, pumpVars, arbVars, gcVars, wbVars, srvVars, flashVars, reparoVars, pauseVars, schemaVars, readVars, syncVars, tickVars, dispVars, callVars, proxyVars>>
    \/ CpLoad /\ UNCHANGED <<logVars, mergeVars, pullVars, pumpVars, arbVars, gcVars, wbVars, srvVars, flashVars, reparoVars, pauseVars, schemaVars, readVars, syncVars, tickVars, dispVars, callVars, proxyVars>>

-----------------------------------------------------------------------------
(* drainer's schema tracker: NewSchema replays the DDL job history, as the    *)
(* specification and schema_test.go describe it                              *)

\* jobs in a history
MaxJobs == 4
\* ids of the schemas and of the tables the jobs name
NumSchemas == 1
NumTables == 3
\* the TableInfo a job carries stands for its post-state
MaxInfo == 2
SchemaIDSet == 1..NumSchemas
TableIDs == 1..NumTables
ErrAlreadyExists == "AlreadyExists"

JobTypes == {"CreateSchema", "DropSchema", "CreateTable", "DropTable", "TruncateTable",
             "AddColumn"}

\* model.Job: Type, SchemaID, TableID, the TableInfo of its Args (id and content), State
SchemaJobs ==
    [Type : JobTypes, SchemaID : SchemaIDSet, TableID : TableIDs, ArgID : TableIDs,
     Info : 1..MaxInfo, cancelled : BOOLEAN]

\* a job as TiDB writes it: a truncate carries a table with a new id, the other
\* table jobs carry the table the job names
WellFormed(job) ==
    IF job.Type = "TruncateTable" THEN job.ArgID # job.TableID ELSE job.ArgID = job.TableID

NoTable == [exists |-> FALSE, info |-> 0, schema |-> 0]

EmptySchemaState ==
    [schemas |-> [s \in SchemaIDSet |-> FALSE], tables |-> [t \in TableIDs |-> NoTable]]

\* a replay that applies cancelled jobs too
skipJob_never(job) == FALSE

\* cancelled jobs are skipped
skipJob(job) == job.cancelled

schemaCreateTable(st, s, t, info) ==
    IF st.tables[t].exists
    THEN [st |-> st, err |-> ErrAlreadyExists]
    ELSE [st |-> [st EXCEPT !.tables[t] = [exists |-> TRUE, info |-> info, schema |-> s]],
          err |-> ErrNil]

schemaDropTable(st, t) ==
    IF ~st.tables[t].exists
    THEN [st |-> st, err |-> ErrNotFound]
    ELSE [st |-> [st EXCEPT !.tables[t] = NoTable], err |-> ErrNil]

\* DropSchema removes the schema and the tables it holds
schemaDropSchema(st, s) ==
    IF ~st.schemas[s]
    THEN [st |-> st, err |-> ErrNotFound]
    ELSE [st |-> [schemas |-> [st.schemas EXCEPT ![s] = FALSE],
                  tables |-> [t \in TableIDs |->
                                 IF st.tables[t].exists /\ st.tables[t].schema = s
                                 THEN NoTable ELSE st.tables[t]]],
          err |-> ErrNil]

\* one job of the history applied to the snapshot
applyJob(st, job) ==
    IF skipJob(job) THEN [st |-> st, err |-> ErrNil]
    ELSE IF job.Type = "CreateSchema"
    THEN IF st.schemas[job.SchemaID]
         THEN [st |-> st, err |-> ErrAlreadyExists]
         ELSE [st |-> [st EXCEPT !.schemas[job.SchemaID] = TRUE], err |-> ErrNil]
    ELSE IF job.Type = "DropSchema"
    THEN schemaDropSchema(st, job.SchemaID)
    ELSE IF ~st.schemas[job.SchemaID]
    THEN [st |-> st, err |-> ErrNotFound]
    ELSE IF job.Type = "CreateTable"
    THEN schemaCreateTable(st, job.SchemaID, job.ArgID, job.Info)
    ELSE IF job.Type = "DropTable"
    THEN schemaDropTable(st, job.TableID)
    ELSE IF job.Type = "TruncateTable"
    THEN LET dropped == schemaDropTable(st, job.TableID)
         IN  IF dropped.err # ErrNil THEN dropped
             ELSE schemaCreateTable(dropped.st, job.SchemaID, job.ArgID, job.Info)
    ELSE \* AddColumn and the other jobs that carry the table's new TableInfo
         IF ~st.tables[job.TableID].exists
         THEN [st |-> st, err |-> ErrNotFound]
         ELSE [st |-> [st EXCEPT !.tables[job.TableID].info = job.Info], err |-> ErrNil]

\* Schema.TableByID
TableByID(st, id) == [ok |-> st.tables[id].exists, info |-> st.tables[id].info]

\* the tables a job affects: the one it names, the one its TableInfo describes,
\* and for DropSchema the tables of the schema
affected(st, job) ==
    IF job.Type = "CreateSchema" THEN {}
    ELSE IF job.Type = "DropSchema"
    THEN {t \in TableIDs : st.tables[t].exists /\ st.tables[t].schema = job.SchemaID}
    ELSE {job.TableID, job.ArgID}

NoJob == [Type |-> "none", ArgID |-> 0, Info |-> 0]

InitSchema ==
    /\ schState = EmptySchemaState
    /\ schErr = ErrNil
    /\ schJobs = 0
    /\ schLast = [t \in TableIDs |-> NoJob]

\* NewSchema's replay takes the next job of the history
ReplayJob(job) ==
    /\ schErr = ErrNil
    /\ schJobs < MaxJobs
    /\ WellFormed(job)
    /\ schJobs' = schJobs + 1
    /\ LET r == applyJob(schState, job)
       IN  /\ schState' = r.st
           /\ schErr' = r.err
           /\ schLast' = IF job.cancelled \/ r.err # ErrNil THEN schLast
                         ELSE [t \in TableIDs |->
                                  IF t \in affected(schState, job)
                                  THEN [Type |-> job.Type, ArgID |-> job.ArgID, Info |-> job.Info]
                                  ELSE schLast[t]]

NextSchema ==
    \/ \E job \in SchemaJobs : ReplayJob(job) /\ UNCHANGED <<logVars, mergeVars, pullVars, pumpVars, arbVars, gcVars, wbVars, srvVars, flashVars, reparoVars, pauseVars, ckptVars, readVars, syncVars, tickVars, dispVars, callVars, proxyVars>>

-----------------------------------------------------------------------------
(* The scenario of TestRead: one payload appended many times to a fresh log   *)
(* under a small segment size, and ReadFrom called from the start of a frame  *)

\* the segment size of the scenario
TestSegmentSize == 260
\* at most this many records are appended
TestRecords == 30
\* the largest nums ReadFrom is called with
TestNums == 11
\* []byte("binlogtest")
TestPayload == <<98, 105, 110, 108, 111, 103, 116, 101, 115, 116>>

InitRead ==
    /\ tdir = (0 :> <<>>)
    /\ tframes = <<>>
    /\ tout = NoOut

\* bl.WriteTail([]byte("binlogtest"))
TestWriteTail ==
    /\ ~tout.called
    /\ Len(tframes) < TestRecords
    /\ tdir' = WriteTail(tdir, TestPayload, TestSegmentSize)
    /\ tframes' = Append(tframes, Entity(seq(tdir), Len(tdir[seq(tdir)]), TestPayload))
    /\ UNCHANGED tout

\* the positions ReadFrom is called with: the start of a frame or of a file
TestStarts == {tframes[i].Pos : i \in 1..Len(tframes)}
                  \cup {[Suffix |-> s, Offset |-> 0] : s \in DOMAIN tdir}

\* bl.ReadFrom(from, nums)
TestReadFrom(from, nums) ==
    /\ ~tout.called
    /\ tout' = [called |-> TRUE, from |-> from, nums |-> nums]
                  @@ ReadFrom(tdir, from, nums, FALSE)
    /\ UNCHANGED <<tdir, tframes>>

NextRead ==
    \/ TestWriteTail /\ UNCHANGED <<logVars, mergeVars, pullVars, pumpVars, arbVars, gcVars, wbVars, srvVars, flashVars, reparoVars, pauseVars, ckptVars, schemaVars, syncVars, tickVars, dispVars, callVars, proxyVars>>
    \/ \E from \in TestStarts : \E nums \in 0..TestNums :
           TestReadFrom(from, nums) /\ UNCHANGED <<logVars, mergeVars, pullVars, pumpVars, arbVars, gcVars, wbVars, srvVars, flashVars, reparoVars, pauseVars, ckptVars, schemaVars, syncVars, tickVars, dispVars, callVars, proxyVars>>

-----------------------------------------------------------------------------
(* arbiter: syncBinlogs next to a loader that can fail, with the channels'   *)
(* blocking sends; Server.Run cancels its context when load.Run fails        *)

\* messages the kafka reader delivers
MaxMsgs == 3
\* capacity of the loader's input channel
InputCap == 1

\* the error of loader.SlaveBinlogToTxn
ErrSlaveBinlogToTxn == "SlaveBinlogToTxnError"

InitSync ==
    /\ sbSource = <<>>
    /\ sbSourceClosed = FALSE
    /\ sbNext = 1
    /\ sbpc = "range"
    /\ sbMsg = 0
    /\ sbRecv = <<>>
    /\ sbSent = <<>>
    /\ sbInput = <<>>
    /\ sbLdClosed = FALSE
    /\ sbCtxDone = FALSE
    /\ sbLoad = "running"
    /\ sbRet = "none"

\* the kafka reader puts its next message on Messages()
SbReaderSend ==
    /\ ~sbSourceClosed
    /\ sbNext <= MaxMsgs
    /\ sbSource' = Append(sbSource, sbNext)
    /\ sbNext' = sbNext + 1
    /\ UNCHANGED <<sbSourceClosed, sbpc, sbMsg, sbRecv, sbSent, sbInput, sbLdClosed,
                   sbCtxDone, sbLoad, sbRet>>

\* Server.Close from outside: s.kafkaReader.Close()
SbServerClose ==
    /\ ~sbSourceClosed
    /\ sbSourceClosed' = TRUE
    /\ UNCHANGED <<sbSource, sbNext, sbpc, sbMsg, sbRecv, sbSent, sbInput, sbLdClosed,
                   sbCtxDone, sbLoad, sbRet>>

\* for msg := range source, then loader.SlaveBinlogToTxn(msg.Binlog)
SbRange(converts) ==
    /\ sbpc = "range"
    /\ sbSource # <<>>
    /\ sbSource' = Tail(sbSource)
    /\ sbMsg' = Head(sbSource)
    /\ sbRecv' = Append(sbRecv, Head(sbSource))
    /\ IF converts
       THEN /\ sbpc' = "send"
            /\ UNCHANGED <<sbRet, sbLdClosed>>
       ELSE \* return err, and the deferred ld.Close()
            /\ sbpc' = "done"
            /\ sbRet' = ErrSlaveBinlogToTxn
            /\ sbLdClosed' = TRUE
    /\ UNCHANGED <<sbSourceClosed, sbNext, sbSent, sbInput, sbCtxDone, sbLoad>>

\* the source is closed and empty: the range ends, return nil, ld.Close()
SbRangeEnd ==
    /\ sbpc = "range"
    /\ sbSource = <<>>
    /\ sbSourceClosed
    /\ sbpc' = "done"
    /\ sbRet' = ErrNil
    /\ sbLdClosed' = TRUE
    /\ UNCHANGED <<sbSource, sbSourceClosed, sbNext, sbMsg, sbRecv, sbSent, sbInput,
                   sbCtxDone, sbLoad>>

\* dest <- txn
SbSend ==
    /\ sbpc = "send"
    /\ Len(sbInput) < InputCap
    /\ sbInput' = Append(sbInput, sbMsg)
    /\ sbSent' = Append(sbSent, sbMsg)
    /\ sbpc' = "select"
    /\ UNCHANGED <<sbSource, sbSourceClosed, sbNext, sbMsg, sbRecv, sbLdClosed,
                   sbCtxDone, sbLoad, sbRet>>

\* select { case dest <- txn: }
SbSelectSend ==
    /\ sbpc = "select"
    /\ Len(sbInput) < InputCap
    /\ sbInput' = Append(sbInput, sbMsg)
    /\ sbSent' = Append(sbSent, sbMsg)
    /\ sbpc' = "range"
    /\ UNCHANGED <<sbSource, sbSourceClosed, sbNext, sbMsg, sbRecv, sbLdClosed,
                   sbCtxDone, sbLoad, sbRet>>

\* select { case <-ctx.Done(): return nil }, and the deferred ld.Close()
SbSelectDone ==
    /\ sbpc = "select"
    /\ sbCtxDone
    /\ sbpc' = "done"
    /\ sbRet' = ErrNil
    /\ sbLdClosed' = TRUE
    /\ UNCHANGED <<sbSource, sbSourceClosed, sbNext, sbMsg, sbRecv, sbSent, sbInput,
                   sbCtxDone, sbLoad>>

\* load.Run receives the next txn of its input
SbLoaderRecv ==
    /\ sbLoad = "running"
    /\ sbInput # <<>>
    /\ sbInput' = Tail(sbInput)
    /\ UNCHANGED <<sbSource, sbSourceClosed, sbNext, sbpc, sbMsg, sbRecv, sbSent,
                   sbLdClosed, sbCtxDone, sbLoad, sbRet>>

\* load.Run returns an error: nothing receives from the input any more
SbLoaderFail ==
    /\ sbLoad = "running"
    /\ sbLoad' = "failed"
    /\ UNCHANGED <<sbSource, sbSourceClosed, sbNext, sbpc, sbMsg, sbRecv, sbSent,
                   sbInput, sbLdClosed, sbCtxDone, sbRet>>

\* load.Run returns nil: the loader is closed and its input is drained
SbLoaderReturn ==
    /\ sbLoad = "running"
    /\ sbLdClosed
    /\ sbInput = <<>>
    /\ sbLoad' = "returned"
    /\ UNCHANGED <<sbSource, sbSourceClosed, sbNext, sbpc, sbMsg, sbRecv, sbSent,
                   sbInput, sbLdClosed, sbCtxDone, sbRet>>

\* Server.Run: if err != nil { syncCancel(); s.Close() }
SbRunCancel ==
    /\ sbLoad = "failed"
    /\ ~sbCtxDone
    /\ sbCtxDone' = TRUE
    /\ sbSourceClosed' = TRUE
    /\ UNCHANGED <<sbSource, sbNext, sbpc, sbMsg, sbRecv, sbSent, sbInput, sbLdClosed,
                   sbLoad, sbRet>>

\* the steps of the goroutine of syncBinlogs
SyncBinlogsStep ==
    \/ \E converts \in BOOLEAN : SbRange(converts)
    \/ SbRangeEnd
    \/ SbSend
    \/ SbSelectSend
    \/ SbSelectDone

NextSync ==
    \/ SbReaderSend /\ UNCHANGED <<logVars, mergeVars, pullVars, pumpVars, arbVars, gcVars, wbVars, srvVars, flashVars, reparoVars, pauseVars, ckptVars, schemaVars, readVars, tickVars, dispVars, callVars, proxyVars>>
    \/ SbServerClose /\ UNCHANGED <<logVars, mergeVars, pullVars, pumpVars, arbVars, gcVars, wbVars, srvVars, flashVars, reparoVars, pauseVars, ckptVars, schemaVars, readVars, tickVars, dispVars, callVars, proxyVars>>
    \/ \E converts \in BOOLEAN : SbRange(converts) /\ UNCHANGED <<logVars, mergeVars, pullVars, pumpVars, arbVars, gcVars, wbVars, srvVars, flashVars, reparoVars, pauseVars, ckptVars, schemaVars, readVars, tickVars, dispVars, callVars, proxyVars>>
    \/ SbRangeEnd /\ UNCHANGED <<logVars, mergeVars, pullVars, pumpVars, arbVars, gcVars, wbVars, srvVars, flashVars, reparoVars, pauseVars, ckptVars, schemaVars, readVars, tickVars, dispVars, callVars, proxyVars>>
    \/ SbSend /\ UNCHANGED <<logVars, mergeVars, pullVars, pumpVars, arbVars, gcVars, wbVars, srvVars, flashVars, reparoVars, pauseVars, ckptVars, schemaVars, readVars, tickVars, dispVars, callVars, proxyVars>>
    \/ SbSelectSend /\ UNCHANGED <<logVars, mergeVars, pullVars, pumpVars, arbVars, gcVars, wbVars, srvVars, flashVars, reparoVars, pauseVars, ckptVars, schemaVars, readVars, tickVars, dispVars, callVars, proxyVars>>
    \/ SbSelectDone /\ UNCHANGED <<logVars, mergeVars, pullVars, pumpVars, arbVars, gcVars, wbVars, srvVars, flashVars, reparoVars, pauseVars, ckptVars, schemaVars, readVars, tickVars, dispVars, callVars, proxyVars>>
    \/ SbLoaderRecv /\ UNCHANGED <<logVars, mergeVars, pullVars, pumpVars, arbVars, gcVars, wbVars, srvVars, flashVars, reparoVars, pauseVars, ckptVars, schemaVars, readVars, tickVars, dispVars, callVars, proxyVars>>
    \/ SbLoaderFail /\ UNCHANGED <<logVars, mergeVars, pullVars, pumpVars, arbVars, gcVars, wbVars, srvVars, flashVars, reparoVars, pauseVars, ckptVars, schemaVars, readVars, tickVars, dispVars, callVars, proxyVars>>
    \/ SbLoaderReturn /\ UNCHANGED <<logVars, mergeVars, pullVars, pumpVars, arbVars, gcVars, wbVars, srvVars, flashVars, reparoVars, pauseVars, ckptVars, schemaVars, readVars, tickVars, dispVars, callVars, proxyVars>>
    \/ SbRunCancel /\ UNCHANGED <<logVars, mergeVars, pullVars, pumpVars, arbVars, gcVars, wbVars, srvVars, flashVars, reparoVars, pauseVars, ckptVars, schemaVars, readVars, tickVars, dispVars, callVars, proxyVars>>

-----------------------------------------------------------------------------
(* The heartbeat's ticks and the WriteBinlog calls that arrive between them  *)

InitTick == arrived = FALSE

\* a WriteBinlog call arrives
WriteBinlogArrives(ts) ==
    /\ WriteBinlogStart(ts)
    /\ arrived' = TRUE

\* a tick: case <-time.After(genBinlogInterval) calls writeFakeBinlog
Tick ==
    /\ FakeCheck
    /\ arrived' = FALSE

\* genForwardBinlog starts: the first interval begins
TickStart ==
    /\ GenForwardStart
    /\ arrived' = FALSE

NextTick ==
    \/ ClientGetTS /\ UNCHANGED <<logVars, mergeVars, pullVars, arbVars, gcVars, wbVars, srvVars, flashVars, reparoVars, pauseVars, ckptVars, schemaVars, readVars, syncVars, tickVars, dispVars, callVars, proxyVars>>
    \/ \E ts \in 1..MaxTSO : WriteBinlogArrives(ts) /\ UNCHANGED <<logVars, mergeVars, pullVars, arbVars, gcVars, wbVars, srvVars, flashVars, reparoVars, pauseVars, ckptVars, schemaVars, readVars, syncVars, dispVars, callVars, proxyVars>>
    \/ \E ts \in 1..MaxTSO : WriteBinlogTail(ts) /\ UNCHANGED <<logVars, mergeVars, pullVars, arbVars, gcVars, wbVars, srvVars, flashVars, reparoVars, pauseVars, ckptVars, schemaVars, readVars, syncVars, tickVars, dispVars, callVars, proxyVars>>
    \/ TickStart /\ UNCHANGED <<logVars, mergeVars, pullVars, arbVars, gcVars, wbVars, srvVars, flashVars, reparoVars, pauseVars, ckptVars, schemaVars, readVars, syncVars, dispVars, callVars, proxyVars>>
    \/ Tick /\ UNCHANGED <<logVars, mergeVars, pullVars, arbVars, gcVars, wbVars, srvVars, flashVars, reparoVars, pauseVars, ckptVars, schemaVars, readVars, syncVars, dispVars, callVars, proxyVars>>
    \/ FakeGetTSO /\ UNCHANGED <<logVars, mergeVars, pullVars, arbVars, gcVars, wbVars, srvVars, flashVars, reparoVars, pauseVars, ckptVars, schemaVars, readVars, syncVars, tickVars, dispVars, callVars, proxyVars>>
    \/ FakeGetTSOErr /\ UNCHANGED <<logVars, mergeVars, pullVars, arbVars, gcVars, wbVars, srvVars, flashVars, reparoVars, pauseVars, ckptVars, schemaVars, readVars, syncVars, tickVars, dispVars, callVars, proxyVars>>
    \/ FakeWriteTail /\ UNCHANGED <<logVars, mergeVars, pullVars, arbVars, gcVars, wbVars, srvVars, flashVars, reparoVars, pauseVars, ckptVars, schemaVars, readVars, syncVars, tickVars, dispVars, callVars, proxyVars>>
    \/ FakeSet /\ UNCHANGED <<logVars, mergeVars, pullVars, arbVars, gcVars, wbVars, srvVars, flashVars, reparoVars, pauseVars, ckptVars, schemaVars, readVars, syncVars, tickVars, dispVars, callVars, proxyVars>>

-----------------------------------------------------------------------------
(* pump/server.go: the dispatcher map, its RW mutex, and the goroutines that *)
(* use the map: WriteBinlog, PullBinlogs, the heartbeat and the GC loop      *)

\* clusters that TiDB sessions write for; cluster 1 is the server's own
NumClusters == 2
\* concurrent WriteBinlog calls
NumWriters == 2
\* passes of the heartbeat and of the GC loop over the map, per behaviour
MaxPasses == 2

Clusters == 1..NumClusters
Writers == 1..NumWriters
\* the holder of the write lock taken for the heartbeat
HeartbeatID == NumWriters + 1
NoHolder == 0

InitDisp ==
    \* Server.init: s.dispatcher[s.clusterID] is there before the goroutines start
    /\ dispatcher = {1}
    /\ muWriter = NoHolder
    /\ muReaders = 0
    /\ dwpc = [w \in Writers |-> "idle"]
    /\ dwcid = [w \in Writers |-> 1]
    /\ drpc = "idle"
    /\ dhpc = "wait"
    /\ dhTodo = {}
    /\ dhCid = 1
    /\ dgpc = "sleep"
    /\ dgTodo = {}
    /\ dPasses = 0
    /\ dFatal = FALSE

\* s.Lock()
MuLock(holder) ==
    /\ muWriter = NoHolder
    /\ muReaders = 0
    /\ muWriter' = holder
    /\ UNCHANGED muReaders

\* s.Unlock()
MuUnlock(holder) ==
    /\ muWriter = holder
    /\ muWriter' = NoHolder
    /\ UNCHANGED muReaders

\* what an iteration of the map that is under way goes on with after an
\* insertion it is not synchronised with: the new key is produced or not
racedTodo(pc, rest, cid) == IF pc = "range" THEN {rest, rest \cup {cid}} ELSE {rest}

\* WriteBinlog: getBinloggerToWrite(cid), s.Lock()
DwLock(w, cid) ==
    /\ ~dFatal
    /\ dwpc[w] = "idle"
    /\ MuLock(w)
    /\ dwpc' = [dwpc EXCEPT ![w] = "locked"]
    /\ dwcid' = [dwcid EXCEPT ![w] = cid]
    /\ UNCHANGED <<dispatcher, drpc, dhpc, dhTodo, dhCid, dgpc, dgTodo, dPasses, dFatal>>

\* getBinloggerToWrite: blr, ok := s.dispatcher[cid]; s.dispatcher[cid] = newblr
\* when it is not there; an iteration under way without the lock races with the
\* insertion: the runtime stops the process or the iteration goes on either way
DwLookup(w, fatal) ==
    /\ ~dFatal
    /\ dwpc[w] = "locked"
    /\ dwpc' = [dwpc EXCEPT ![w] = "unlock"]
    /\ IF dwcid[w] \in dispatcher
       THEN /\ ~fatal
            /\ UNCHANGED <<dispatcher, dhTodo, dgTodo, dFatal>>
       ELSE /\ dispatcher' = dispatcher \cup {dwcid[w]}
            /\ fatal => (dhpc = "range" \/ dgpc = "range")
            /\ dFatal' = fatal
            /\ dhTodo' \in racedTodo(dhpc, dhTodo, dwcid[w])
            /\ dgTodo' \in racedTodo(dgpc, dgTodo, dwcid[w])
    /\ UNCHANGED <<muWriter, muReaders, dwcid, drpc, dhpc, dhCid, dgpc, dPasses>>

\* getBinloggerToWrite: the deferred s.Unlock(), and WriteTail
DwUnlock(w) ==
    /\ ~dFatal
    /\ dwpc[w] = "unlock"
    /\ MuUnlock(w)
    /\ dwpc' = [dwpc EXCEPT ![w] = "idle"]
    /\ UNCHANGED <<dispatcher, dwcid, drpc, dhpc, dhTodo, dhCid, dgpc, dgTodo, dPasses, dFatal>>

\* PullBinlogs: getBinloggerToRead, s.RLock() and the lookup
DrRLock ==
    /\ ~dFatal
    /\ drpc = "idle"
    /\ muWriter = NoHolder
    /\ muReaders' = muReaders + 1
    /\ drpc' = "rlocked"
    /\ UNCHANGED <<dispatcher, muWriter, dwpc, dwcid, dhpc, dhTodo, dhCid, dgpc, dgTodo,
                   dPasses, dFatal>>

\* getBinloggerToRead: the deferred s.RUnlock()
DrRUnlock ==
    /\ ~dFatal
    /\ drpc = "rlocked"
    /\ muReaders' = muReaders - 1
    /\ drpc' = "done"
    /\ UNCHANGED <<dispatcher, muWriter, dwpc, dwcid, dhpc, dhTodo, dhCid, dgpc, dgTodo,
                   dPasses, dFatal>>

\* writeFakeBinlog: for cid := range s.dispatcher begins, no lock is taken
DhRange ==
    /\ ~dFatal
    /\ dhpc = "wait"
    /\ dPasses < MaxPasses
    /\ dPasses' = dPasses + 1
    /\ dhpc' = "range"
    /\ dhTodo' = dispatcher
    /\ UNCHANGED <<dispatcher, muWriter, muReaders, dwpc, dwcid, drpc, dhCid, dgpc, dgTodo, dFatal>>

\* the range produces its next key: getBinloggerToWrite(cid), s.Lock()
DhNext(cid) ==
    /\ ~dFatal
    /\ dhpc = "range"
    /\ cid \in dhTodo
    /\ MuLock(HeartbeatID)
    /\ dhTodo' = dhTodo \ {cid}
    /\ dhCid' = cid
    /\ dhpc' = "locked"
    /\ UNCHANGED <<dispatcher, dwpc, dwcid, drpc, dgpc, dgTodo, dPasses, dFatal>>

\* getBinloggerToWrite of the heartbeat: the lookup and the deferred s.Unlock();
\* the record is written and the range goes on
DhUnlock ==
    /\ ~dFatal
    /\ dhpc = "locked"
    /\ MuUnlock(HeartbeatID)
    /\ dhpc' = "range"
    /\ UNCHANGED <<dispatcher, dwpc, dwcid, drpc, dhTodo, dhCid, dgpc, dgTodo, dPasses, dFatal>>

\* the range is over: writeFakeBinlog returns
DhEnd ==
    /\ ~dFatal
    /\ dhpc = "range"
    /\ dhTodo = {}
    /\ dhpc' = "wait"
    /\ UNCHANGED <<dispatcher, muWriter, muReaders, dwpc, dwcid, drpc, dhTodo, dhCid, dgpc,
                   dgTodo, dPasses, dFatal>>

\* gcBinlogFile: for _, b := range s.dispatcher begins, no lock is taken
DgRange ==
    /\ ~dFatal
    /\ dgpc = "sleep"
    /\ dPasses < MaxPasses
    /\ dPasses' = dPasses + 1
    /\ dgpc' = "range"
    /\ dgTodo' = dispatcher
    /\ UNCHANGED <<dispatcher, muWriter, muReaders, dwpc, dwcid, drpc, dhpc, dhTodo, dhCid, dFatal>>

\* gcBinlogFile: b.GC(s.gc) for the next binlogger of the range
DgNext(cid) ==
    /\ ~dFatal
    /\ dgpc = "range"
    /\ cid \in dgTodo
    /\ dgTodo' = dgTodo \ {cid}
    /\ UNCHANGED <<dispatcher, muWriter, muReaders, dwpc, dwcid, drpc, dhpc, dhTodo, dhCid,
                   dgpc, dPasses, dFatal>>

\* gcBinlogFile: the range is over, time.Sleep(time.Hour)
DgEnd ==
    /\ ~dFatal
    /\ dgpc = "range"
    /\ dgTodo = {}
    /\ dgpc' = "sleep"
    /\ UNCHANGED <<dispatcher, muWriter, muReaders, dwpc, dwcid, drpc, dhpc, dhTodo, dhCid,
                   dgTodo, dPasses, dFatal>>

NextDisp ==
    \/ \E w \in Writers : \E cid \in Clusters : DwLock(w, cid) /\ UNCHANGED <<logVars, mergeVars, pullVars, pumpVars, arbVars, gcVars, wbVars, srvVars, flashVars, reparoVars, pauseVars, ckptVars, schemaVars, readVars, syncVars, tickVars, callVars, proxyVars>>
    \/ \E w \in Writers : \E fatal \in BOOLEAN : DwLookup(w, fatal) /\ UNCHANGED <<logVars, mergeVars, pullVars, pumpVars, arbVars, gcVars, wbVars, srvVars, flashVars, reparoVars, pauseVars, ckptVars, schemaVars, readVars, syncVars, tickVars, callVars, proxyVars>>
    \/ \E w \in Writers : DwUnlock(w) /\ UNCHANGED <<logVars, mergeVars, pullVars, pumpVars, arbVars, gcVars, wbVars, srvVars, flashVars, reparoVars, pauseVars, ckptVars, schemaVars, readVars, syncVars, tickVars, callVars, proxyVars>>
    \/ DrRLock /\ UNCHANGED <<logVars, mergeVars, pullVars, pumpVars, arbVars, gcVars, wbVars, srvVars, flashVars, reparoVars, pauseVars, ckptVars, schemaVars, readVars, syncVars, tickVars, callVars, proxyVars>>
    \/ DrRUnlock /\ UNCHANGED <<logVars, mergeVars, pullVars, pumpVars, arbVars, gcVars, wbVars, srvVars, flashVars, reparoVars, pauseVars, ckptVars, schemaVars, readVars, syncVars, tickVars, callVars, proxyVars>>
    \/ DhRange /\ UNCHANGED <<logVars, mergeVars, pullVars, pumpVars, arbVars, gcVars, wbVars, srvVars, flashVars, reparoVars, pauseVars, ckptVars, schemaVars, readVars, syncVars, tickVars, callVars, proxyVars>>
    \/ \E cid \in Clusters : DhNext(cid) /\ UNCHANGED <<logVars, mergeVars, pullVars, pumpVars, arbVars, gcVars, wbVars, srvVars, flashVars, reparoVars, pauseVars, ckptVars, schemaVars, readVars, syncVars, tickVars, callVars, proxyVars>>
    \/ DhUnlock /\ UNCHANGED <<logVars, mergeVars, pullVars, pumpVars, arbVars, gcVars, wbVars, srvVars, flashVars, reparoVars, pauseVars, ckptVars, schemaVars, readVars, syncVars, tickVars, callVars, proxyVars>>
    \/ DhEnd /\ UNCHANGED <<logVars, mergeVars, pullVars, pumpVars, arbVars, gcVars, wbVars, srvVars, flashVars, reparoVars, pauseVars, ckptVars, schemaVars, readVars, syncVars, tickVars, callVars, proxyVars>>
    \/ DgRange /\ UNCHANGED <<logVars, mergeVars, pullVars, pumpVars, arbVars, gcVars, wbVars, srvVars, flashVars, reparoVars, pauseVars, ckptVars, schemaVars, readVars, syncVars, tickVars, callVars, proxyVars>>
    \/ \E cid \in Clusters : DgNext(cid) /\ UNCHANGED <<logVars, mergeVars, pullVars, pumpVars, arbVars, gcVars, wbVars, srvVars, flashVars, reparoVars, pauseVars, ckptVars, schemaVars, readVars, syncVars, tickVars, callVars, proxyVars>>
    \/ DgEnd /\ UNCHANGED <<logVars, mergeVars, pullVars, pumpVars, arbVars, gcVars, wbVars, srvVars, flashVars, reparoVars, pauseVars, ckptVars, schemaVars, readVars, syncVars, tickVars, callVars, proxyVars>>

-----------------------------------------------------------------------------
(* The calls of AddSource and RemoveSource, whether they stage a change or not *)

InitCalls == calls = [s \in SourceIDs |-> "none"]

\* AddSource(id) is called: the source is staged unless it is registered
AddSourceCall(id) ==
    /\ mpc # "new"
    /\ IF id \in sources
       THEN UNCHANGED mergeVars
       ELSE AddSource(id)
    /\ calls' = [calls EXCEPT ![id] = "added"]

\* RemoveSource(id) is called: the removal is staged if the source is registered
RemoveSourceCall(id) ==
    /\ mpc # "new"
    /\ IF id \in sources
       THEN RemoveSource(id)
       ELSE UNCHANGED mergeVars
    /\ calls' = [calls EXCEPT ![id] = IF @ = "none" THEN "none" ELSE "removed"]

NextMergeCalls ==
    \/ \E srcs \in SUBSET SourceIDs : \E made \in BOOLEAN : NewMerger(srcs, made) /\ UNCHANGED <<logVars, pullVars, pumpVars, arbVars, gcVars, wbVars, srvVars, flashVars, reparoVars, pauseVars, ckptVars, schemaVars, readVars, syncVars, tickVars, dispVars, callVars, proxyVars>>
    \/ Close /\ UNCHANGED <<logVars, pullVars, pumpVars, arbVars, gcVars, wbVars, srvVars, flashVars, reparoVars, pauseVars, ckptVars, schemaVars, readVars, syncVars, tickVars, dispVars, callVars, proxyVars>>
    \/ \E id \in SourceIDs : AddSourceCall(id) /\ UNCHANGED <<logVars, pullVars, pumpVars, arbVars, gcVars, wbVars, srvVars, flashVars, reparoVars, pauseVars, ckptVars, schemaVars, readVars, syncVars, tickVars, dispVars, proxyVars>>
    \/ \E id \in SourceIDs : RemoveSourceCall(id) /\ UNCHANGED <<logVars, pullVars, pumpVars, arbVars, gcVars, wbVars, srvVars, flashVars, reparoVars, pauseVars, ckptVars, schemaVars, readVars, syncVars, tickVars, dispVars, proxyVars>>
    \/ RunLoop /\ UNCHANGED <<logVars, pullVars, pumpVars, arbVars, gcVars, wbVars, srvVars, flashVars, reparoVars, pauseVars, ckptVars, schemaVars, readVars, syncVars, tickVars, dispVars, callVars, proxyVars>>
    \/ \E id \in SourceIDs : RunHasHead(id) /\ UNCHANGED <<logVars, pullVars, pumpVars, arbVars, gcVars, wbVars, srvVars, flashVars, reparoVars, pauseVars, ckptVars, schemaVars, readVars, syncVars, tickVars, dispVars, callVars, proxyVars>>
    \/ \E id \in SourceIDs : RunReadHead(id) /\ UNCHANGED <<logVars, pullVars, pumpVars, arbVars, gcVars, wbVars, srvVars, flashVars, reparoVars, pauseVars, ckptVars, schemaVars, readVars, syncVars, tickVars, dispVars, callVars, proxyVars>>
    \/ \E id \in SourceIDs : RunSourceClosed(id) /\ UNCHANGED <<logVars, pullVars, pumpVars, arbVars, gcVars, wbVars, srvVars, flashVars, reparoVars, pauseVars, ckptVars, schemaVars, readVars, syncVars, tickVars, dispVars, callVars, proxyVars>>
    \/ RunSkip /\ UNCHANGED <<logVars, pullVars, pumpVars, arbVars, gcVars, wbVars, srvVars, flashVars, reparoVars, pauseVars, ckptVars, schemaVars, readVars, syncVars, tickVars, dispVars, callVars, proxyVars>>
    \/ RunNoHead /\ UNCHANGED <<logVars, pullVars, pumpVars, arbVars, gcVars, wbVars, srvVars, flashVars, reparoVars, pauseVars, ckptVars, schemaVars, readVars, syncVars, tickVars, dispVars, callVars, proxyVars>>
    \/ \E id \in SourceIDs : RunStale(id) /\ UNCHANGED <<logVars, pullVars, pumpVars, arbVars, gcVars, wbVars, srvVars, flashVars, reparoVars, pauseVars, ckptVars, schemaVars, readVars, syncVars, tickVars, dispVars, callVars, proxyVars>>
    \/ \E id \in SourceIDs : RunEmit(id) /\ UNCHANGED <<logVars, pullVars, pumpVars, arbVars, gcVars, wbVars, srvVars, flashVars, reparoVars, pauseVars, ckptVars, schemaVars, readVars, syncVars, tickVars, dispVars, callVars, proxyVars>>
    \/ \E id \in SourceIDs : \E ts \in 1..MaxTS : SourceSend(id, ts) /\ UNCHANGED <<logVars, pullVars, pumpVars, arbVars, gcVars, wbVars, srvVars, flashVars, reparoVars, pauseVars, ckptVars, schemaVars, readVars, syncVars, tickVars, dispVars, callVars, proxyVars>>
    \/ \E id \in SourceIDs : SourceClose(id) /\ UNCHANGED <<logVars, pullVars, pumpVars, arbVars, gcVars, wbVars, srvVars, flashVars, reparoVars, pauseVars, ckptVars, schemaVars, readVars, syncVars, tickVars, dispVars, callVars, proxyVars>>
    \/ OutputRecv /\ UNCHANGED <<logVars, pullVars, pumpVars, arbVars, gcVars, wbVars, srvVars, flashVars, reparoVars, pauseVars, ckptVars, schemaVars, readVars, syncVars, tickVars, dispVars, callVars, proxyVars>>

-----------------------------------------------------------------------------
(* pump/proxy_binlogger.go: newProxy, WriteTail, Close and the goroutine sync, *)
(* over a master and a replicate binlogger that share latestFilePos            *)

\* WriteTail calls on the proxy per behaviour
MaxProxyWrites == 3
\* records the replicate log takes per behaviour; its WriteTail fails after that
MaxReplicated == 4

\* ComparePos: by suffix, then by offset
ComparePos(a, b) ==
    IF a.Suffix # b.Suffix THEN (IF a.Suffix < b.Suffix THEN -1 ELSE 1)
    ELSE IF a.Offset # b.Offset THEN (IF a.Offset < b.Offset THEN -1 ELSE 1)
    ELSE 0

\* The logs of the proxy are kept as their records: a log is the sequence of its
\* segment files, a file the sequence of the payloads framed in it. A frame is
\* the payload and 16 bytes: magic(4), size(8), crc(4).
frameLen(payload) == Len(payload) + 16

RECURSIVE fileSize(_)
fileSize(f) == IF f = <<>> THEN 0 ELSE frameLen(Head(f)) + fileSize(Tail(f))

\* binlogger.WriteTail on such a log: append the frame, rotate when the file has
\* reached the segment size
logWriteTail(log, payload) ==
    LET appended == [log EXCEPT ![Len(log)] = Append(@, payload)]
    IN  IF fileSize(appended[Len(log)]) < SegmentSizeSmall THEN appended
        ELSE Append(appended, <<>>)

\* the records of file i from record k on, the k-th starting at offset off
RECURSIVE fileEntities(_, _, _, _)
fileEntities(f, i, k, off) ==
    IF k > Len(f) THEN <<>>
    ELSE <<Entity(i - 1, off, f[k])>> \o fileEntities(f, i, k + 1, off + frameLen(f[k]))

\* the records of the files from file i on, each with the position of its frame
RECURSIVE logEntities(_, _)
logEntities(log, i) ==
    IF i > Len(log) THEN <<>>
    ELSE fileEntities(log[i], i, 1, 0) \o logEntities(log, i + 1)

\* binlogger.Walk from a position that is the start of a frame or the end of a
\* file: the records at and after it
masterWalk(log, from) ==
    SelectSeq(logEntities(log, 1), LAMBDA e : ComparePos(e.Pos, from) >= 0)

\* binlogger.ReadFrom(from, 1)
masterReadFrom(log, from) ==
    LET ents == masterWalk(log, from)
    IN  IF ents = <<>> THEN <<>> ELSE <<ents[1]>>

\* latestFilePos after a WriteTail that took the log from b to appended: WriteTail
\* sets the offset, rotate the suffix and the offset
latestAfter(latest, b, appended) ==
    IF Len(appended) # Len(b) THEN [Suffix |-> Len(appended) - 1, Offset |-> 0]
    ELSE [latest EXCEPT !.Offset = fileSize(appended[Len(appended)])]

\* updatePosition(readPos, pos)
updatePosition(readPos, pos) == IF ComparePos(readPos, pos) > 0 THEN readPos ELSE pos

\* syncBinlog for the first n of the entities Walk sends: replicate.WriteTail and
\* updatePosition, whose cp.save of a later position succeeds
RECURSIVE syncBinlog(_, _, _, _)
syncBinlog(st, ents, k, n) ==
    IF k > n THEN st
    ELSE LET appended == logWriteTail(st.replicate, ents[k].Payload)
             newPos == updatePosition(ents[k].Pos, st.pos)
         IN  syncBinlog([replicate |-> appended,
                         latest |-> latestAfter(st.latest, st.replicate, appended),
                         pos |-> newPos,
                         cp |-> IF ComparePos(ents[k].Pos, st.pos) > 0
                                THEN ents[k].Pos ELSE st.cp],
                        ents, k + 1, n)

InitProxy ==
    \* newProxy has started go p.sync(); p.ctx is not assigned yet
    /\ xmaster = << <<>> >>
    /\ xreplicate = << <<>> >>
    /\ xlatest = ZeroPos
    /\ xcp = ZeroPos
    /\ xpos = ZeroPos
    /\ xctx = "nil"
    /\ xspc = "new"
    /\ xcpc = "idle"
    /\ xwrites = 0

\* newProxy: p.ctx, p.cancel = context.WithCancel(...), return p
XAssignCtx ==
    /\ xspc # "panic"
    /\ xctx = "nil"
    /\ xctx' = "live"
    /\ UNCHANGED <<xmaster, xreplicate, xlatest, xcp, xpos, xspc, xcpc, xwrites>>

\* Proxy.WriteTail on the proxy newProxy returned: p.Lock(), p.master.WriteTail
XWriteTail ==
    /\ xspc # "panic"
    /\ xctx # "nil"
    /\ xcpc = "idle"
    /\ xwrites < MaxProxyWrites
    /\ xwrites' = xwrites + 1
    /\ xmaster' = logWriteTail(xmaster, <<xwrites + 1>>)
    /\ xlatest' = latestAfter(xlatest, xmaster, xmaster')
    /\ UNCHANGED <<xreplicate, xcp, xpos, xctx, xspc, xcpc>>

\* sync: p.wg.Add(1), pos := p.cp.pos()
XSyncBegin ==
    /\ xspc = "new"
    /\ xpos' = xcp
    /\ xspc' = "select"
    /\ UNCHANGED <<xmaster, xreplicate, xlatest, xcp, xctx, xcpc, xwrites>>

\* sync: select { case <-p.ctx.Done(): return; default: }, reading p.ctx; a nil
\* p.ctx faults
XSyncSelect ==
    /\ xspc = "select"
    /\ xspc' = CASE xctx = "nil" -> "panic"
                 [] xctx = "done" -> "exited"
                 [] OTHER -> "walk"
    /\ UNCHANGED <<xmaster, xreplicate, xlatest, xcp, xpos, xctx, xcpc, xwrites>>

\* how the callback of a Walk fails, if it does
WalkFails == {"none", "write", "save"}

\* sync: p.master.Walk(p.ctx, pos, syncBinlog) and time.Sleep. The first n
\* entities are replicated; fail says how the callback fails for the next one:
\* in replicate.WriteTail, or in cp.save after the write
XSyncWalk(n, fail) ==
    /\ xspc = "walk"
    \* with the context cancelled Walk returns before it decodes a record
    /\ xctx = "done" => n = 0 /\ fail = "none"
    /\ LET ents == IF xctx = "done" THEN <<>> ELSE masterWalk(xmaster, xpos)
           replicated == Len(logEntities(xreplicate, 1))
           st == syncBinlog([replicate |-> xreplicate, latest |-> xlatest,
                             pos |-> xpos, cp |-> xcp], ents, 1, n)
       IN  /\ n <= Len(ents)
           /\ replicated + n + (IF fail = "save" THEN 1 ELSE 0) <= MaxReplicated
           /\ fail = "none" => n = Len(ents)
           /\ fail # "none" => n < Len(ents)
           /\ fail = "save" => ComparePos(ents[n + 1].Pos, st.pos) > 0
           /\ IF fail = "save"
              THEN LET appended == logWriteTail(st.replicate, ents[n + 1].Payload)
                   IN  /\ xreplicate' = appended
                       /\ xlatest' = latestAfter(st.latest, st.replicate, appended)
                       \* updatePosition returns readPos with the error
                       /\ xpos' = ents[n + 1].Pos
                       /\ xcp' = st.cp
              ELSE /\ xreplicate' = st.replicate
                   /\ xlatest' = st.latest
                   /\ xpos' = st.pos
                   /\ xcp' = st.cp
    /\ xspc' = "select"
    /\ UNCHANGED <<xmaster, xctx, xcpc, xwrites>>

\* Proxy.Close: p.Lock()
XCloseLock ==
    /\ xspc # "panic"
    /\ xctx # "nil"
    /\ xcpc = "idle"
    /\ xcpc' = "loop"
    /\ UNCHANGED <<xmaster, xreplicate, xlatest, xcp, xpos, xctx, xspc, xwrites>>

\* Close: one turn of its loop: p.cp.pos(), p.master.ReadFrom(pos, 1), the
\* comparison with latestFilePos, and break or time.Sleep
XCloseTurn ==
    /\ xspc # "panic"
    /\ xcpc = "loop"
    /\ LET entities == masterReadFrom(xmaster, xcp)
       IN  IF entities = <<>> THEN xcpc' = "break" /\ UNCHANGED xcp
           ELSE IF ComparePos(entities[1].Pos, xlatest) >= 0
                THEN xcp' = entities[1].Pos /\ xcpc' = "break"
                ELSE UNCHANGED <<xcp, xcpc>>
    /\ UNCHANGED <<xmaster, xreplicate, xlatest, xpos, xctx, xspc, xwrites>>

\* Close: p.master.Close(), p.cancel()
XCloseCancel ==
    /\ xspc # "panic"
    /\ xcpc = "break"
    /\ xctx' = "done"
    /\ xcpc' = "wait"
    /\ UNCHANGED <<xmaster, xreplicate, xlatest, xcp, xpos, xspc, xwrites>>

\* Close: p.wg.Wait() returns, the counter is zero before sync's Add and after
\* its Done
XCloseReturn ==
    /\ xcpc = "wait"
    /\ xspc \in {"new", "exited"}
    /\ xcpc' = "returned"
    /\ UNCHANGED <<xmaster, xreplicate, xlatest, xcp, xpos, xctx, xspc, xwrites>>

\* the steps of the goroutine sync
ProxySyncStep ==
    \/ XSyncBegin
    \/ XSyncSelect
    \/ \E n \in 0..MaxProxyWrites : \E fail \in WalkFails : XSyncWalk(n, fail)

\* the steps of a Close call that has been made
ProxyCloseStep ==
    XCloseTurn \/ XCloseCancel \/ XCloseReturn

NextProxy ==
    \/ XAssignCtx /\ UNCHANGED <<logVars, mergeVars, pullVars, pumpVars, arbVars, gcVars, wbVars, srvVars, flashVars, reparoVars, pauseVars, ckptVars, schemaVars, readVars, syncVars, tickVars, dispVars, callVars>>
    \/ XWriteTail /\ UNCHANGED <<logVars, mergeVars, pullVars, pumpVars, arbVars, gcVars, wbVars, srvVars, flashVars, reparoVars, pauseVars, ckptVars, schemaVars, readVars, syncVars, tickVars, dispVars, callVars>>
    \/ XSyncBegin /\ UNCHANGED <<logVars, mergeVars, pullVars, pumpVars, arbVars, gcVars, wbVars, srvVars, flashVars, reparoVars, pauseVars, ckptVars, schemaVars, readVars, syncVars, tickVars, dispVars, callVars>>
    \/ XSyncSelect /\ UNCHANGED <<logVars, mergeVars, pullVars, pumpVars, arbVars, gcVars, wbVars, srvVars, flashVars, reparoVars, pauseVars, ckptVars, schemaVars, readVars, syncVars, tickVars, dispVars, callVars>>
    \/ \E n \in 0..MaxProxyWrites : \E fail \in WalkFails :
           XSyncWalk(n, fail) /\ UNCHANGED <<logVars, mergeVars, pullVars, pumpVars, arbVars, gcVars, wbVars, srvVars, flashVars, reparoVars, pauseVars, ckptVars, schemaVars, readVars, syncVars, tickVars, dispVars, callVars>>
    \/ XCloseLock /\ UNCHANGED <<logVars, mergeVars, pullVars, pumpVars, arbVars, gcVars, wbVars, srvVars, flashVars, reparoVars, pauseVars, ckptVars, schemaVars, readVars, syncVars, tickVars, dispVars, callVars>>
    \/ XCloseTurn /\ UNCHANGED <<logVars, mergeVars, pullVars, pumpVars, arbVars, gcVars, wbVars, srvVars, flashVars, reparoVars, pauseVars, ckptVars, schemaVars, readVars, syncVars, tickVars, dispVars, callVars>>
    \/ XCloseCancel /\ UNCHANGED <<logVars, mergeVars, pullVars, pumpVars, arbVars, gcVars, wbVars, srvVars, flashVars, reparoVars, pauseVars, ckptVars, schemaVars, readVars, syncVars, tickVars, dispVars, callVars>>
    \/ XCloseReturn /\ UNCHANGED <<logVars, mergeVars, pullVars, pumpVars, arbVars, gcVars, wbVars, srvVars, flashVars, reparoVars, pauseVars, ckptVars, schemaVars, readVars, syncVars, tickVars, dispVars, callVars>>

-----------------------------------------------------------------------------
(* The specifications *)

Init == InitLog /\ InitMerge /\ InitPull /\ InitPump /\ InitArb /\ InitGC /\ InitWB /\ InitSrv /\ InitFlash /\ InitReparo /\ InitPause /\ InitCkpt /\ InitSchema /\ InitRead /\ InitSync /\ InitTick /\ InitDisp /\ InitCalls /\ InitProxy

NextPull ==
    \/ PumpClose /\ UNCHANGED <<logVars, mergeVars, pumpVars, arbVars, gcVars, wbVars, srvVars, flashVars, reparoVars, pauseVars, ckptVars, schemaVars, readVars, syncVars, tickVars, dispVars, callVars, proxyVars>>
    \/ Pause /\ UNCHANGED <<logVars, mergeVars, pumpVars, arbVars, gcVars, wbVars, srvVars, flashVars, reparoVars, pauseVars, ckptVars, schemaVars, readVars, syncVars, tickVars, dispVars, callVars, proxyVars>>
    \/ Continue /\ UNCHANGED <<logVars, mergeVars, pumpVars, arbVars, gcVars, wbVars, srvVars, flashVars, reparoVars, pauseVars, ckptVars, schemaVars, readVars, syncVars, tickVars, dispVars, callVars, proxyVars>>
    \/ PctxCancel /\ UNCHANGED <<logVars, mergeVars, pumpVars, arbVars, gcVars, wbVars, srvVars, flashVars, reparoVars, pauseVars, ckptVars, schemaVars, readVars, syncVars, tickVars, dispVars, callVars, proxyVars>>
    \/ PullReturnClosed /\ UNCHANGED <<logVars, mergeVars, pumpVars, arbVars, gcVars, wbVars, srvVars, flashVars, reparoVars, pauseVars, ckptVars, schemaVars, readVars, syncVars, tickVars, dispVars, callVars, proxyVars>>
    \/ PullLoop /\ UNCHANGED <<logVars, mergeVars, pumpVars, arbVars, gcVars, wbVars, srvVars, flashVars, reparoVars, pauseVars, ckptVars, schemaVars, readVars, syncVars, tickVars, dispVars, callVars, proxyVars>>
    \/ \E ok \in BOOLEAN : PullCreateConn(ok) /\ UNCHANGED <<logVars, mergeVars, pumpVars, arbVars, gcVars, wbVars, srvVars, flashVars, reparoVars, pauseVars, ckptVars, schemaVars, readVars, syncVars, tickVars, dispVars, callVars, proxyVars>>
    \/ \E ts \in 1..MaxPullTS : PullRecv(ts) /\ UNCHANGED <<logVars, mergeVars, pumpVars, arbVars, gcVars, wbVars, srvVars, flashVars, reparoVars, pauseVars, ckptVars, schemaVars, readVars, syncVars, tickVars, dispVars, callVars, proxyVars>>
    \/ PullRecvErr /\ UNCHANGED <<logVars, mergeVars, pumpVars, arbVars, gcVars, wbVars, srvVars, flashVars, reparoVars, pauseVars, ckptVars, schemaVars, readVars, syncVars, tickVars, dispVars, callVars, proxyVars>>
    \/ PullUnmarshalErr /\ UNCHANGED <<logVars, mergeVars, pumpVars, arbVars, gcVars, wbVars, srvVars, flashVars, reparoVars, pauseVars, ckptVars, schemaVars, readVars, syncVars, tickVars, dispVars, callVars, proxyVars>>
    \/ PullSend /\ UNCHANGED <<logVars, mergeVars, pumpVars, arbVars, gcVars, wbVars, srvVars, flashVars, reparoVars, pauseVars, ckptVars, schemaVars, readVars, syncVars, tickVars, dispVars, callVars, proxyVars>>
    \/ PullCtxDone /\ UNCHANGED <<logVars, mergeVars, pumpVars, arbVars, gcVars, wbVars, srvVars, flashVars, reparoVars, pauseVars, ckptVars, schemaVars, readVars, syncVars, tickVars, dispVars, callVars, proxyVars>>
    \/ RetRecv /\ UNCHANGED <<logVars, mergeVars, pumpVars, arbVars, gcVars, wbVars, srvVars, flashVars, reparoVars, pauseVars, ckptVars, schemaVars, readVars, syncVars, tickVars, dispVars, callVars, proxyVars>>

NextPump ==
    \/ ClientGetTS /\ UNCHANGED <<logVars, mergeVars, pullVars, arbVars, gcVars, wbVars, srvVars, flashVars, reparoVars, pauseVars, ckptVars, schemaVars, readVars, syncVars, tickVars, dispVars, callVars, proxyVars>>
    \/ \E ts \in 1..MaxTSO : WriteBinlogStart(ts) /\ UNCHANGED <<logVars, mergeVars, pullVars, arbVars, gcVars, wbVars, srvVars, flashVars, reparoVars, pauseVars, ckptVars, schemaVars, readVars, syncVars, tickVars, dispVars, callVars, proxyVars>>
    \/ \E ts \in 1..MaxTSO : WriteBinlogTail(ts) /\ UNCHANGED <<logVars, mergeVars, pullVars, arbVars, gcVars, wbVars, srvVars, flashVars, reparoVars, pauseVars, ckptVars, schemaVars, readVars, syncVars, tickVars, dispVars, callVars, proxyVars>>
    \/ GenForwardStart /\ UNCHANGED <<logVars, mergeVars, pullVars, arbVars, gcVars, wbVars, srvVars, flashVars, reparoVars, pauseVars, ckptVars, schemaVars, readVars, syncVars, tickVars, dispVars, callVars, proxyVars>>
    \/ FakeCheck /\ UNCHANGED <<logVars, mergeVars, pullVars, arbVars, gcVars, wbVars, srvVars, flashVars, reparoVars, pauseVars, ckptVars, schemaVars, readVars, syncVars, tickVars, dispVars, callVars, proxyVars>>
    \/ FakeGetTSO /\ UNCHANGED <<logVars, mergeVars, pullVars, arbVars, gcVars, wbVars, srvVars, flashVars, reparoVars, pauseVars, ckptVars, schemaVars, readVars, syncVars, tickVars, dispVars, callVars, proxyVars>>
    \/ FakeGetTSOErr /\ UNCHANGED <<logVars, mergeVars, pullVars, arbVars, gcVars, wbVars, srvVars, flashVars, reparoVars, pauseVars, ckptVars, schemaVars, readVars, syncVars, tickVars, dispVars, callVars, proxyVars>>
    \/ FakeWriteTail /\ UNCHANGED <<logVars, mergeVars, pullVars, arbVars, gcVars, wbVars, srvVars, flashVars, reparoVars, pauseVars, ckptVars, schemaVars, readVars, syncVars, tickVars, dispVars, callVars, proxyVars>>
    \/ FakeSet /\ UNCHANGED <<logVars, mergeVars, pullVars, arbVars, gcVars, wbVars, srvVars, flashVars, reparoVars, pauseVars, ckptVars, schemaVars, readVars, syncVars, tickVars, dispVars, callVars, proxyVars>>

NextArb ==
    \/ NewArbServer /\ UNCHANGED <<logVars, mergeVars, pullVars, pumpVars, gcVars, wbVars, srvVars, flashVars, reparoVars, pauseVars, ckptVars, schemaVars, readVars, syncVars, tickVars, dispVars, callVars, proxyVars>>
    \/ ArbClose /\ UNCHANGED <<logVars, mergeVars, pullVars, pumpVars, gcVars, wbVars, srvVars, flashVars, reparoVars, pauseVars, ckptVars, schemaVars, readVars, syncVars, tickVars, dispVars, callVars, proxyVars>>
    \/ ArbKill /\ UNCHANGED <<logVars, mergeVars, pullVars, pumpVars, gcVars, wbVars, srvVars, flashVars, reparoVars, pauseVars, ckptVars, schemaVars, readVars, syncVars, tickVars, dispVars, callVars, proxyVars>>
    \/ SyncRecv /\ UNCHANGED <<logVars, mergeVars, pullVars, pumpVars, gcVars, wbVars, srvVars, flashVars, reparoVars, pauseVars, ckptVars, schemaVars, readVars, syncVars, tickVars, dispVars, callVars, proxyVars>>
    \/ SyncSend /\ UNCHANGED <<logVars, mergeVars, pullVars, pumpVars, gcVars, wbVars, srvVars, flashVars, reparoVars, pauseVars, ckptVars, schemaVars, readVars, syncVars, tickVars, dispVars, callVars, proxyVars>>
    \/ SyncSendAgain /\ UNCHANGED <<logVars, mergeVars, pullVars, pumpVars, gcVars, wbVars, srvVars, flashVars, reparoVars, pauseVars, ckptVars, schemaVars, readVars, syncVars, tickVars, dispVars, callVars, proxyVars>>
    \/ SyncReturn /\ UNCHANGED <<logVars, mergeVars, pullVars, pumpVars, gcVars, wbVars, srvVars, flashVars, reparoVars, pauseVars, ckptVars, schemaVars, readVars, syncVars, tickVars, dispVars, callVars, proxyVars>>
    \/ LoaderDispatch /\ UNCHANGED <<logVars, mergeVars, pullVars, pumpVars, gcVars, wbVars, srvVars, flashVars, reparoVars, pauseVars, ckptVars, schemaVars, readVars, syncVars, tickVars, dispVars, callVars, proxyVars>>
    \/ \E w \in Workers : WorkerCommit(w) /\ UNCHANGED <<logVars, mergeVars, pullVars, pumpVars, gcVars, wbVars, srvVars, flashVars, reparoVars, pauseVars, ckptVars, schemaVars, readVars, syncVars, tickVars, dispVars, callVars, proxyVars>>
    \/ LoaderReturn /\ UNCHANGED <<logVars, mergeVars, pullVars, pumpVars, gcVars, wbVars, srvVars, flashVars, reparoVars, pauseVars, ckptVars, schemaVars, readVars, syncVars, tickVars, dispVars, callVars, proxyVars>>
    \/ SupSuccess /\ UNCHANGED <<logVars, mergeVars, pullVars, pumpVars, gcVars, wbVars, srvVars, flashVars, reparoVars, pauseVars, ckptVars, schemaVars, readVars, syncVars, tickVars, dispVars, callVars, proxyVars>>
    \/ SupTick /\ UNCHANGED <<logVars, mergeVars, pullVars, pumpVars, gcVars, wbVars, srvVars, flashVars, reparoVars, pauseVars, ckptVars, schemaVars, readVars, syncVars, tickVars, dispVars, callVars, proxyVars>>
    \/ SupReturn /\ UNCHANGED <<logVars, mergeVars, pullVars, pumpVars, gcVars, wbVars, srvVars, flashVars, reparoVars, pauseVars, ckptVars, schemaVars, readVars, syncVars, tickVars, dispVars, callVars, proxyVars>>
    \/ RunReturn /\ UNCHANGED <<logVars, mergeVars, pullVars, pumpVars, gcVars, wbVars, srvVars, flashVars, reparoVars, pauseVars, ckptVars, schemaVars, readVars, syncVars, tickVars, dispVars, callVars, proxyVars>>

SpecLog == Init /\ [][NextLog]_vars

SpecMerge == Init /\ [][NextMerge]_vars

\* the steps of the goroutine run
RunStep ==
    \/ RunLoop
    \/ \E id \in SourceIDs : RunHasHead(id) \/ RunReadHead(id) \/ RunSourceClosed(id)
    \/ RunSkip
    \/ RunNoHead
    \/ \E id \in SourceIDs : RunStale(id) \/ RunEmit(id)

\* a Merger over a fixed set of sources that nobody closes
NextMergeRun ==
    \/ \E srcs \in SUBSET SourceIDs : \E made \in BOOLEAN : \E pause \in [SourceIDs -> BOOLEAN] :
           NewMergerPaused(srcs, made, pause) /\ UNCHANGED <<logVars, pullVars, pumpVars, arbVars, gcVars, wbVars, srvVars, flashVars, reparoVars, ckptVars, schemaVars, readVars, syncVars, tickVars, dispVars, callVars, proxyVars>>
    \/ RunLoop /\ UNCHANGED <<logVars, pullVars, pumpVars, arbVars, gcVars, wbVars, srvVars, flashVars, reparoVars, pauseVars, ckptVars, schemaVars, readVars, syncVars, tickVars, dispVars, callVars, proxyVars>>
    \/ \E id \in SourceIDs : RunHasHead(id) /\ UNCHANGED <<logVars, pullVars, pumpVars, arbVars, gcVars, wbVars, srvVars, flashVars, reparoVars, pauseVars, ckptVars, schemaVars, readVars, syncVars, tickVars, dispVars, callVars, proxyVars>>
    \/ \E id \in SourceIDs : RunReadHead(id) /\ UNCHANGED <<logVars, pullVars, pumpVars, arbVars, gcVars, wbVars, srvVars, flashVars, reparoVars, pauseVars, ckptVars, schemaVars, readVars, syncVars, tickVars, dispVars, callVars, proxyVars>>
    \/ \E id \in SourceIDs : RunSourceClosed(id) /\ UNCHANGED <<logVars, pullVars, pumpVars, arbVars, gcVars, wbVars, srvVars, flashVars, reparoVars, pauseVars, ckptVars, schemaVars, readVars, syncVars, tickVars, dispVars, callVars, proxyVars>>
    \/ RunSkip /\ UNCHANGED <<logVars, pullVars, pumpVars, arbVars, gcVars, wbVars, srvVars, flashVars, reparoVars, pauseVars, ckptVars, schemaVars, readVars, syncVars, tickVars, dispVars, callVars, proxyVars>>
    \/ RunNoHead /\ UNCHANGED <<logVars, pullVars, pumpVars, arbVars, gcVars, wbVars, srvVars, flashVars, reparoVars, pauseVars, ckptVars, schemaVars, readVars, syncVars, tickVars, dispVars, callVars, proxyVars>>
    \/ \E id \in SourceIDs : RunStale(id) /\ UNCHANGED <<logVars, pullVars, pumpVars, arbVars, gcVars, wbVars, srvVars, flashVars, reparoVars, pauseVars, ckptVars, schemaVars, readVars, syncVars, tickVars, dispVars, callVars, proxyVars>>
    \/ \E id \in SourceIDs : RunEmit(id) /\ UNCHANGED <<logVars, pullVars, pumpVars, arbVars, gcVars, wbVars, srvVars, flashVars, reparoVars, pauseVars, ckptVars, schemaVars, readVars, syncVars, tickVars, dispVars, callVars, proxyVars>>
    \/ \E id \in SourceIDs : \E ts \in 1..MaxTS : SourceSend(id, ts) /\ UNCHANGED <<logVars, pullVars, pumpVars, arbVars, gcVars, wbVars, srvVars, flashVars, reparoVars, pauseVars, ckptVars, schemaVars, readVars, syncVars, tickVars, dispVars, callVars, proxyVars>>
    \/ \E id \in SourceIDs : SourceClose(id) /\ UNCHANGED <<logVars, pullVars, pumpVars, arbVars, gcVars, wbVars, srvVars, flashVars, reparoVars, pauseVars, ckptVars, schemaVars, readVars, syncVars, tickVars, dispVars, callVars, proxyVars>>
    \/ OutputRecv /\ UNCHANGED <<logVars, pullVars, pumpVars, arbVars, gcVars, wbVars, srvVars, flashVars, reparoVars, pauseVars, ckptVars, schemaVars, readVars, syncVars, tickVars, dispVars, callVars, proxyVars>>

\* go m.run() keeps running and the reader of Output() keeps receiving
SpecMergeRun ==
    /\ Init
    /\ [][NextMergeRun]_vars
    /\ WF_vars(RunStep /\ UNCHANGED <<logVars, pullVars, pumpVars, arbVars, gcVars, wbVars, srvVars, flashVars, reparoVars, pauseVars, ckptVars, schemaVars, readVars, syncVars, tickVars, dispVars, callVars, proxyVars>>)
    /\ WF_vars(OutputRecv /\ UNCHANGED <<logVars, pullVars, pumpVars, arbVars, gcVars, wbVars, srvVars, flashVars, reparoVars, pauseVars, ckptVars, schemaVars, readVars, syncVars, tickVars, dispVars, callVars, proxyVars>>)

\* a Merger over a fixed set of sources, with Close called at any time
NextMergeClose ==
    \/ NextMergeRun
    \/ Close /\ UNCHANGED <<logVars, pullVars, pumpVars, arbVars, gcVars, wbVars, srvVars, flashVars, reparoVars, pauseVars, ckptVars, schemaVars, readVars, syncVars, tickVars, dispVars, callVars, proxyVars>>

\* the run goroutine and the reader of m.output are scheduled
SpecMergeLive ==
    /\ Init
    /\ [][NextMergeClose]_vars
    /\ WF_vars(RunStep /\ UNCHANGED <<logVars, pullVars, pumpVars, arbVars, gcVars, wbVars, srvVars, flashVars, reparoVars, pauseVars, ckptVars, schemaVars, readVars, syncVars, tickVars, dispVars, callVars, proxyVars>>)
    /\ WF_vars(OutputRecv /\ UNCHANGED <<logVars, pullVars, pumpVars, arbVars, gcVars, wbVars, srvVars, flashVars, reparoVars, pauseVars, ckptVars, schemaVars, readVars, syncVars, tickVars, dispVars, callVars, proxyVars>>)

SpecPull == Init /\ [][NextPull]_vars

\* the puller's goroutine is scheduled: the steps that wait neither for the stream
\* nor for the reader of the channel are taken when they can be
PullStep ==
    \/ PullReturnClosed
    \/ PullLoop
    \/ \E ok \in BOOLEAN : PullCreateConn(ok)
    \/ PullSend
    \/ PullCtxDone

SpecPullLive ==
    /\ Init
    /\ [][NextPull]_vars
    /\ WF_vars(PullStep /\ UNCHANGED <<logVars, mergeVars, pumpVars, arbVars, gcVars, wbVars, srvVars, flashVars, reparoVars, pauseVars, ckptVars, schemaVars, readVars, syncVars, tickVars, dispVars, callVars, proxyVars>>)

SpecPump == Init /\ [][NextPump]_vars

\* the steps of the goroutine genForwardBinlog when getTSO succeeds
HeartbeatStep ==
    GenForwardStart \/ FakeCheck \/ FakeGetTSO \/ FakeWriteTail \/ FakeSet

\* a Pump whose timestamp oracle answers every getTSO of the heartbeat
NextPumpLive ==
    \/ ClientGetTS /\ UNCHANGED <<logVars, mergeVars, pullVars, arbVars, gcVars, wbVars, srvVars, flashVars, reparoVars, pauseVars, ckptVars, schemaVars, readVars, syncVars, tickVars, dispVars, callVars, proxyVars>>
    \/ \E ts \in 1..MaxTSO : WriteBinlogStart(ts) /\ UNCHANGED <<logVars, mergeVars, pullVars, arbVars, gcVars, wbVars, srvVars, flashVars, reparoVars, pauseVars, ckptVars, schemaVars, readVars, syncVars, tickVars, dispVars, callVars, proxyVars>>
    \/ \E ts \in 1..MaxTSO : WriteBinlogTail(ts) /\ UNCHANGED <<logVars, mergeVars, pullVars, arbVars, gcVars, wbVars, srvVars, flashVars, reparoVars, pauseVars, ckptVars, schemaVars, readVars, syncVars, tickVars, dispVars, callVars, proxyVars>>
    \/ GenForwardStart /\ UNCHANGED <<logVars, mergeVars, pullVars, arbVars, gcVars, wbVars, srvVars, flashVars, reparoVars, pauseVars, ckptVars, schemaVars, readVars, syncVars, tickVars, dispVars, callVars, proxyVars>>
    \/ FakeCheck /\ UNCHANGED <<logVars, mergeVars, pullVars, arbVars, gcVars, wbVars, srvVars, flashVars, reparoVars, pauseVars, ckptVars, schemaVars, readVars, syncVars, tickVars, dispVars, callVars, proxyVars>>
    \/ FakeGetTSO /\ UNCHANGED <<logVars, mergeVars, pullVars, arbVars, gcVars, wbVars, srvVars, flashVars, reparoVars, pauseVars, ckptVars, schemaVars, readVars, syncVars, tickVars, dispVars, callVars, proxyVars>>
    \/ FakeWriteTail /\ UNCHANGED <<logVars, mergeVars, pullVars, arbVars, gcVars, wbVars, srvVars, flashVars, reparoVars, pauseVars, ckptVars, schemaVars, readVars, syncVars, tickVars, dispVars, callVars, proxyVars>>
    \/ FakeSet /\ UNCHANGED <<logVars, mergeVars, pullVars, arbVars, gcVars, wbVars, srvVars, flashVars, reparoVars, pauseVars, ckptVars, schemaVars, readVars, syncVars, tickVars, dispVars, callVars, proxyVars>>

\* go s.genForwardBinlog() keeps running: its timer fires every genBinlogInterval
SpecPumpLive ==
    /\ Init
    /\ [][NextPumpLive]_vars
    /\ WF_vars(HeartbeatStep /\ UNCHANGED <<logVars, mergeVars, pullVars, arbVars, gcVars, wbVars, srvVars, flashVars, reparoVars, pauseVars, ckptVars, schemaVars, readVars, syncVars, tickVars, dispVars, callVars, proxyVars>>)

SpecArb == Init /\ [][NextArb]_vars

SpecGC == Init /\ [][NextGC]_vars

SpecWB == Init /\ [][NextWB]_vars

SpecSrv == Init /\ [][NextSrv]_vars

SpecFlash == Init /\ [][NextFlash]_vars

\* the goroutines of runLoader and a Sync whose select has a ready case are scheduled
SpecReparo ==
    /\ Init /\ [][NextReparo]_vars
    /\ WF_vars(RunLoaderReturned /\ ReparoRest)
    /\ WF_vars(RunLoaderQuit /\ ReparoRest)
    /\ WF_vars(SuccCallback /\ ReparoRest)
    /\ WF_vars(SuccQuit /\ ReparoRest)
    /\ \A c \in Callers : WF_vars(SyncLoaderQuit(c) /\ ReparoRest)

SpecCkpt == Init /\ [][NextCkpt]_vars

SpecSchema == Init /\ [][NextSchema]_vars

SpecRead == Init /\ [][NextRead]_vars

\* syncBinlogs and Server.Run are goroutines that the scheduler runs when they can
\* take a step
SpecSync ==
    /\ Init /\ [][NextSync]_vars
    /\ WF_vars(SyncBinlogsStep /\ UNCHANGED <<logVars, mergeVars, pullVars, pumpVars, arbVars, gcVars, wbVars, srvVars, flashVars, reparoVars, pauseVars, ckptVars, schemaVars, readVars, tickVars, dispVars, callVars, proxyVars>>)
    /\ WF_vars(SbRunCancel /\ UNCHANGED <<logVars, mergeVars, pullVars, pumpVars, arbVars, gcVars, wbVars, srvVars, flashVars, reparoVars, pauseVars, ckptVars, schemaVars, readVars, tickVars, dispVars, callVars, proxyVars>>)

SpecTick == Init /\ [][NextTick]_vars

SpecDisp == Init /\ [][NextDisp]_vars

SpecMergeCalls == Init /\ [][NextMergeCalls]_vars

\* sync is a goroutine that keeps running, walking the master once a second, with
\* a replicate log and a checkpoint that accept its writes; a Close call that was
\* made goes on
SpecProxy ==
    /\ Init /\ [][NextProxy]_vars
    /\ WF_vars(ProxySyncStep /\ UNCHANGED <<logVars, mergeVars, pullVars, pumpVars, arbVars, gcVars, wbVars, srvVars, flashVars, reparoVars, pauseVars, ckptVars, schemaVars, readVars, syncVars, tickVars, dispVars, callVars>>)
    /\ WF_vars(ProxyCloseStep /\ UNCHANGED <<logVars, mergeVars, pullVars, pumpVars, arbVars, gcVars, wbVars, srvVars, flashVars, reparoVars, pauseVars, ckptVars, schemaVars, readVars, syncVars, tickVars, dispVars, callVars>>)

Spec == Init /\ [][NextLog \/ NextMerge \/ NextPull \/ NextPump \/ NextArb \/ NextGC \/ NextWB \/ NextSrv \/ NextFlash \/ NextReparo \/ NextCkpt \/ NextSchema \/ NextRead \/ NextSync \/ NextTick \/ NextDisp \/ NextMergeCalls \/ NextProxy]_vars

-----------------------------------------------------------------------------
(* Claims about the storage *)

PayloadsOf(ents) == [i \in 1..Len(ents) |-> ents[i].Payload]

NonEmpty(ps) == SelectSeq(ps, LAMBDA p : p # <<>>)

\* the frames whose bytes include byte off of file s
FramesAt(s, off) ==
    {i \in 1..Len(frames) :
        /\ frames[i].Pos.Suffix = s
        /\ frames[i].Pos.Offset <= off
        /\ off < frames[i].Pos.Offset + Len(frames[i].Payload) + 16}

\* the frames file s is cut strictly inside of, when cut to size bytes
FramesCut(s, size) ==
    {i \in 1..Len(frames) :
        /\ frames[i].Pos.Suffix = s
        /\ frames[i].Pos.Offset < size
        /\ size < frames[i].Pos.Offset + Len(frames[i].Payload) + 16}

\* C6 as stated: Walk from the zero position sends every payload passed to WriteTail,
\* once, in call order, with the same bytes.
C6_WalkSendsEveryPayload ==
    (walkOut.called /\ damage = NoDamage) =>
        (walkOut.err = ErrNil /\ PayloadsOf(walkOut.sent) = written)

\* C6 amended: Walk from the zero position sends every non-empty payload passed to
\* WriteTail, once, in call order, with the same bytes; an empty payload is not stored.
C6_WalkSendsEveryNonEmptyPayload ==
    (walkOut.called /\ damage = NoDamage) =>
        (walkOut.err = ErrNil /\ PayloadsOf(walkOut.sent) = NonEmpty(written))

C6_Witness ==
    /\ walkOut.called /\ damage = NoDamage
    /\ Len(walkOut.sent) = 2
    /\ walkOut.sent[1].Payload # walkOut.sent[2].Payload

\* C7: Walk sends the same records, and ends the same way, over the rotated segments
\* as over the log that received the same appends and never rotated.
C7_RotationTransparent ==
    (walkOut.called /\ damage = NoDamage) =>
        /\ PayloadsOf(walkOut.sent) = PayloadsOf(refOut.sent)
        /\ walkOut.err = refOut.err

C7_Witness ==
    /\ walkOut.called /\ damage = NoDamage
    /\ Len(walkOut.sent) = 2
    /\ walkOut.sent[1].Pos.Suffix # walkOut.sent[2].Pos.Suffix
    /\ \A i \in 1..Len(refOut.sent) : refOut.sent[i].Pos.Suffix = 0

\* C8 as stated: with one byte of a stored record altered, Walk sends the records
\* before it unchanged and ends at it with the corruption error.
C8_CorruptByteStopsWalk ==
    (walkOut.called /\ damage.kind = "corrupt") =>
        \A k \in FramesAt(damage.Suffix, damage.Offset) :
            /\ walkOut.sent = SubSeq(frames, 1, k - 1)
            /\ walkOut.err = ErrCRCMismatch

\* C9 as stated: with a segment ending strictly inside a frame, Walk and ReadFrom
\* return the complete records before the frame and then the unexpected-EOF error.
C9_TruncationIsUnexpectedEOF ==
    damage.kind = "truncate" =>
        \A k \in FramesCut(damage.Suffix, damage.Offset) :
            /\ walkOut.called =>
                   /\ walkOut.sent = SubSeq(frames, 1, k - 1)
                   /\ walkOut.err = ErrUnexpectedEOF
            /\ (readOut.called /\ readOut.from = ZeroPos /\ readOut.nums >= k) =>
                   /\ readOut.ents = SubSeq(frames, 1, k - 1)
                   /\ readOut.err = ErrUnexpectedEOF

-----------------------------------------------------------------------------
(* Claims about the merger *)

-----------------------------------------------------------------------------
(* Claims about the puller, the Pump's write path and the arbiter server *)

StrictlyIncreasing(q) == \A i \in 1..(Len(q) - 1) : q[i] < q[i + 1]

\* C10 as stated: every item the puller sends on its channel has a commitTs strictly
\* greater than that of every item it sent before, and a record whose commitTs is not
\* above the last one is logged and not sent: no received record is both sent and logged.
C10_ForwardsOnlyIncreasing ==
    /\ StrictlyIncreasing(forwarded)
    /\ Len(forwarded) + Len(unsorted) <= pulled

\* C2 as stated: the commitTs of the records of one Pump log, in append order, are
\* strictly increasing.
C2_LogCommitTsIncreasing ==
    \A i \in 1..(Len(pumpLog) - 1) : pumpLog[i].CommitTs < pumpLog[i + 1].CommitTs

\* C3 as stated: every transaction whose commitTs is at most finishTS has been
\* committed downstream.
C3_FinishTSIsCommitted ==
    \A ts \in 1..MaxTxn : ts <= finishTS => ts \in applied

\* C4 as stated: the commitTs of successive checkpoint Save calls of a run never
\* decrease.
C4_SavesNeverDecrease ==
    \A i \in 1..(Len(saves) - 1) : saves[i] <= saves[i + 1]

\* C5: in a run that loaded a checkpoint with status Normal, no transaction with a
\* commitTs at or below the loaded checkpoint commitTs is committed downstream.
C5_NoReapplyAfterCleanRestart ==
    (runNo > 1 /\ loaded.found /\ loaded.status = StatusNormal) =>
        \A ts \in appliedRun : ts > loaded.ts

\* a restart from a Normal checkpoint above the initial commitTs, and a transaction
\* committed in the new run
C5_Witness ==
    /\ runNo > 1 /\ loaded.found /\ loaded.status = StatusNormal
    /\ loaded.ts > InitialCommitTS
    /\ appliedRun # {}

-----------------------------------------------------------------------------
(* More claims about the merger *)

\* a step of run that sends an item on m.output
Emits == Len(emitted') > Len(emitted)

Pending ==
    \/ \E id \in sources : srcChan[id] # <<>>
    \/ DOMAIN binlogs.heads # {}
    \/ mpc = "panic"

\* C14 as stated: when every source has delivered its finite, strictly increasing
\* sequence and closed its channel, the merger eventually has sent every delivered
\* item on its output.
C14_EveryDeliveredItemEmitted ==
    (mpc # "new" /\ \A id \in SourceIDs : srcClosed[id]) ~> ~Pending

-----------------------------------------------------------------------------
(* More claims about the pump server *)

\* the heartbeat waits for its timer, the flag is set and no WriteBinlog call is
\* under way; the log holds n records
IdleAt(n) ==
    /\ hpc = "wait"
    /\ needGenBinlog
    /\ writing = {}
    /\ Len(pumpLog) = n

\* record n + 1 of the log is a rollback with a commitTs above all before it
FakeAppended(n) ==
    /\ Len(pumpLog) > n
    /\ pumpLog[n + 1].Tp = "Rollback"
    /\ \A i \in 1..n : pumpLog[i].CommitTs < pumpLog[n + 1].CommitTs

\* C15: on an idle Pump with a working oracle the heartbeat's next tick appends one
\* rollback record whose commitTs is above every commitTs of the log, unless a
\* WriteBinlog call arrives first (or the tick finds the model's oracle out of
\* timestamps).
C15_IdleHeartbeatAppends ==
    \A n \in 0..MaxTSO :
        IdleAt(n) ~> \/ FakeAppended(n)
                     \/ ~needGenBinlog
                     \/ (hpc = "gen" /\ tso = MaxTSO /\ Len(pumpLog) = n)

\* three heartbeats in a row on a Pump that received no write
C15_Witness ==
    /\ Len(pumpLog) = 3
    /\ \A i \in 1..3 : pumpLog[i].Tp = "Rollback"
    /\ \A i \in 1..2 : pumpLog[i].CommitTs < pumpLog[i + 1].CommitTs
    /\ issued = {} /\ writing = {} /\ tso = 3

-----------------------------------------------------------------------------
(* Claims about GC *)

\* C16 as stated: GC removes a file only if it is both older than the retention
\* period and of a suffix below keepFromPos.Suffix.
C16_RemovesOnlyOldAndBelow ==
    \A r \in gcRemoved : r.old /\ r.below

\* C17: the file the writer appends to is in the directory, and no file was the
\* writer's file when GC removed it.
C17_TailNeverRemoved ==
    /\ gcTail \in gcFiles
    /\ \A r \in gcRemoved : ~r.tail

\* GC removes a file after the writer has rotated past the names GC read
C17_Witness ==
    /\ gpc = "loop"
    /\ gcRemoved # {}
    /\ gcTail > gcSnap[Len(gcSnap)]

-----------------------------------------------------------------------------
(* Claims about WriteBinlog *)

\* C18 as stated: a response with an empty errmsg means that the payload was
\* appended to the log, and a call in which resolving the binlogger or appending
\* failed returns a non-empty errmsg.
C18_EmptyErrmsgMeansAppended ==
    \A i \in 1..Len(resps) :
        /\ resps[i].Errmsg = "" => resps[i].appended
        /\ resps[i].failed => resps[i].Errmsg # ""

-----------------------------------------------------------------------------
(* Claims about PullBinlogs *)

\* C19 as stated: the server ends a PullBinlogs stream only on a failed send or a
\* fatal storage error (or when the cluster has no binlogger); the end of the log
\* and a last frame that is partly written are not among the causes.
C19_StreamEndsOnlyOnSendOrStorageError ==
    spc = "ended" => endErr \in {"send", "io", "NotFound"}

-----------------------------------------------------------------------------
(* More claims about the arbiter *)

\* C20 as stated: when the run before ended without the final Normal save, after
\* it had committed a transaction downstream, NewServer loads a checkpoint of
\* status Running and puts the loader in safe mode.
C20_SafeModeAfterAbnormalQuit ==
    [][(apc = "killed" /\ appliedRun # {} /\ apc' = "run")
       => (loaded'.found /\ loaded'.status = StatusRunning /\ safeMode')]_vars

\* C21 as stated: when Run returns without an error the checkpoint holds
\* (finishTS, Normal), and finishTS is at or above the commitTs of every success
\* the run received from the loader.
C21_CleanExitSavesNormal ==
    [][apc' = "stopped"
       => /\ checkpoint' = Save(finishTS', StatusNormal)
          /\ \A ts \in appliedRun' : ts <= checkpoint'.ts]_vars

-----------------------------------------------------------------------------
(* Claims about FlashSyncer *)

\* the rows committed downstream by the first p events
CommittedBy(p) == UNION {fdown[q].rows : q \in 1..p}

\* C22: every item sent on the success channel has all its rows committed
\* downstream; no row of it is in a row batch.
C22_AckOnlyAfterCommit ==
    \A j \in 1..Len(fsuccess) :
        /\ freceived[fsuccess[j]].rows \subseteq CommittedBy(Len(fdown))
        /\ \A d \in DBs : freceived[fsuccess[j]].rows \cap rowBatches[d] = {}

\* an item of two rows is acknowledged while a later item is still buffered
C22_Witness ==
    /\ \E j \in 1..Len(fsuccess) : Cardinality(freceived[fsuccess[j]].rows) = 2
    /\ fitems # <<>>
    /\ \E d \in DBs : rowBatches[d] # {}

\* C23: when a DDL is executed downstream, the rows of every DML item accepted
\* before it are committed, and rows of a DML item received after it are
\* committed only after the DDL has been executed on every db.
C23_DDLIsBarrier ==
    \A p \in 1..Len(fdown) :
        /\ fdown[p].kind = "ddl" =>
              \A i \in 1..(fdown[p].item - 1) :
                  (freceived[i].kind = "dml" /\ freceived[i].ok)
                      => freceived[i].rows \subseteq CommittedBy(p)
        /\ fdown[p].kind = "rows" =>
              \A r \in fdown[p].rows : \A q \in 1..Len(fdown) :
                  (fdown[q].kind = "ddl" /\ fdown[q].item < r.item)
                      => /\ q < p
                         /\ \A d \in DBs : \E q2 \in 1..(p - 1) :
                                fdown[q2] = DDLEvent(fdown[q].item, d)

\* a DDL was executed on every db after a buffered DML item, and a DML item
\* received after it was committed
C23_Witness ==
    \E p \in 1..Len(fdown) :
        /\ fdown[p] = DDLEvent(2, NumDBs - 1)
        /\ freceived[1].kind = "dml" /\ freceived[1].ok
        /\ \E q \in (p + 1)..Len(fdown) : fdown[q].kind = "rows"

-----------------------------------------------------------------------------
(* Claims about reparo's mysqlSyncer *)

-----------------------------------------------------------------------------
(* Claims about paused sources of the merger *)

\* C25 as stated: run does not receive from the channel of a source marked as
\* paused, and while every other registered source is paused, an item a source
\* has delivered is eventually sent on m.output.
C25_PausedSourceNotHoldingUp ==
    /\ [][\A id \in SourceIDs :
              (mpc # "new" /\ srcPause[id]) => Len(srcChan'[id]) >= Len(srcChan[id])]_vars
    /\ \A id \in SourceIDs : \A ts \in 1..MaxTS :
           (/\ mpc # "new"
            /\ id \in sources
            /\ ~srcPause[id]
            /\ \A o \in sources \ {id} : srcPause[o]
            /\ MergeItem(id, ts) \in Range(srcChan[id]))
               ~> (MergeItem(id, ts) \in Range(emitted))


-----------------------------------------------------------------------------
(* Claims about the end of the puller and of the merger *)

\* C26 as stated: after Close on a puller its goroutine eventually returns and the
\* channel it sends on is closed.
C26_CloseStopsPuller == isClosed ~> (ppc = "done" /\ ret.closed)


\* an item a registered source has delivered to the merger and run has not yet sent
Undelivered(x) ==
    \/ x.ID \in sources /\ x \in Range(srcChan[x.ID])
    \/ x.ID \in DOMAIN binlogs.heads /\ binlogs.heads[x.ID] = x

\* C27 as stated: after Close on the merger m.output is eventually closed, and an
\* item a source had delivered before the call has been sent on m.output by the
\* time m.output is closed.
C27_CloseDrainsThenClosesOutput ==
    /\ close ~> output.closed
    /\ \A id \in SourceIDs : \A ts \in 1..MaxTS :
           []((~close /\ mpc # "new" /\ Undelivered(MergeItem(id, ts)))
                 => [](output.closed => MergeItem(id, ts) \in Range(emitted)))


-----------------------------------------------------------------------------
(* Claims about the checkpoints *)

\* C28 as stated: a Load after Saves that all succeeded returns the commitTs
\* (and, where the store holds one, the status) of the last Save, and a Load on
\* a store without a record reports NotFound.
C28_LoadIsLastSaveOrNotFound ==
    /\ (pbRet.op = "Load" /\ ~pbClosed /\ ~pbLast.failed)
          => IF pbLast.saved
             THEN pbRet.err = ErrNil /\ pbCommitTS = pbLast.ts
             ELSE pbRet.err = ErrNotFound
    /\ cpRet.op = "Load"
          => IF cpLast.saved
             THEN /\ cpRet.err = ErrNil
                  /\ cpRet.ts = cpLast.ts
                  /\ cpRet.status = cpLast.status
             ELSE cpRet.err = ErrNotFound

\* C28 amended: the arbiter's Checkpoint behaves as stated.  A PbCheckPoint
\* holds no status; after Saves that all succeeded its Load gives the commitTs
\* of the last Save, a saved 0 read as initialCommitTS, and on a store without
\* a record it returns no error and gives initialCommitTS.
C28_LoadGivesLastSave ==
    /\ (pbRet.op = "Load" /\ ~pbClosed /\ ~pbLast.failed)
          => /\ pbRet.err = ErrNil
             /\ pbCommitTS = IF pbLast.saved /\ pbLast.ts # 0 THEN pbLast.ts ELSE pbInitial
    /\ cpRet.op = "Load"
          => IF cpLast.saved
             THEN /\ cpRet.err = ErrNil
                  /\ cpRet.ts = cpLast.ts
                  /\ cpRet.status = cpLast.status
             ELSE cpRet.err = ErrNotFound

\* both stores were loaded after a successful Save, the PbCheckPoint with an
\* initialCommitTS other than 0
C28_Witness ==
    /\ pbRet.op = "Load" /\ ~pbClosed /\ ~pbLast.failed
    /\ pbLast.saved /\ pbLast.ts # 0
    /\ pbInitial # 0
    /\ pbCommitTS = pbLast.ts
    /\ cpRet.op = "Load" /\ cpLast.saved /\ cpRet.status = StatusRunning


-----------------------------------------------------------------------------
(* Claims about the schema tracker *)

DropJobs == {"DropTable", "DropSchema"}

\* C29 as stated: after a replay that succeeded, for every table id a job has
\* affected, TableByID finds the table with the TableInfo of the last such job,
\* and does not find it exactly when that job was a drop.
C29_TableByIDIsLastJob ==
    schErr = ErrNil =>
        \A id \in TableIDs :
            schLast[id].Type # "none" =>
                /\ ~TableByID(schState, id).ok <=> schLast[id].Type \in DropJobs
                /\ TableByID(schState, id).ok => TableByID(schState, id).info = schLast[id].Info

\* C29 amended: the table is also not found under the id a truncate has replaced.
C29_TableByIDIsLastJobOrTruncated ==
    schErr = ErrNil =>
        \A id \in TableIDs :
            schLast[id].Type # "none" =>
                /\ ~TableByID(schState, id).ok
                      <=> \/ schLast[id].Type \in DropJobs
                          \/ schLast[id].Type = "TruncateTable" /\ schLast[id].ArgID # id
                /\ TableByID(schState, id).ok => TableByID(schState, id).info = schLast[id].Info

\* a table was truncated to a new id and then altered under the new id
C29_Witness ==
    /\ schErr = ErrNil
    /\ \E old, new \in TableIDs :
          /\ old # new
          /\ schLast[old].Type = "TruncateTable" /\ ~TableByID(schState, old).ok
          /\ schLast[new].Type = "AddColumn" /\ TableByID(schState, new).ok


-----------------------------------------------------------------------------
(* Claims about ReadFrom *)

\* index in tframes of the first record at or after pos, Len(tframes) + 1 when
\* there is none
FirstFrom(pos) ==
    LET later == {i \in 1..Len(tframes) :
                     \/ tframes[i].Pos.Suffix > pos.Suffix
                     \/ tframes[i].Pos.Suffix = pos.Suffix /\ tframes[i].Pos.Offset >= pos.Offset}
    IN  IF later = {} THEN Len(tframes) + 1 ELSE CHOOSE i \in later : \A k \in later : i <= k

\* the nums records from pos on in append order, or those there are
Following(pos, nums) ==
    LET firstIdx == FirstFrom(pos)
        lastIdx == IF firstIdx + nums - 1 > Len(tframes) THEN Len(tframes) ELSE firstIdx + nums - 1
    IN  Slice(tframes, firstIdx, lastIdx)

ReadsFollowing ==
    tout.called => /\ tout.err = ErrNil
                   /\ tout.ents = Following(tout.from, tout.nums)

\* ReadFrom({1,0}, 11) on the log of thirty records
ScenarioRead ==
    /\ tout.called
    /\ Len(tframes) = 30
    /\ tout.from = [Suffix |-> 1, Offset |-> 0]
    /\ tout.nums = 11

\* C30 as stated: ReadFrom(pos, n) returns the n records that follow pos in append
\* order, each with its own position, and in the scenario the 11th record of
\* ReadFrom({1,0}, 11) is at {2, 26}.
C30_ReadFromScenario ==
    /\ ReadsFollowing
    /\ ScenarioRead => /\ Len(tout.ents) = 11
                       /\ tout.ents[11].Pos = [Suffix |-> 2, Offset |-> 26]

\* C30 amended: the 11th record of ReadFrom({1,0}, 11) is at {2, 0}, the first
\* of the third file, and ReadFrom returns fewer than n records when fewer follow.
C30_ReadFromFollowing ==
    /\ ReadsFollowing
    /\ ScenarioRead => /\ Len(tout.ents) = 11
                       /\ tout.ents[11].Pos = [Suffix |-> 2, Offset |-> 0]

\* the scenario's read has crossed from the second file into the third
C30_Witness ==
    /\ ScenarioRead
    /\ Len(tout.ents) = 11
    /\ tout.ents[10].Pos.Suffix = 1
    /\ tout.ents[11].Pos.Suffix = 2


-----------------------------------------------------------------------------
(* Claims about syncBinlogs *)

\* C31: syncBinlogs sends each message received from the reader to the loader
\* input exactly once, in the order received: what it has sent is what it has
\* received, but for the message it is handling.
C31_SentOnceInOrder ==
    /\ Len(sbSent) <= Len(sbRecv)
    /\ sbSent = SubSeq(sbRecv, 1, Len(sbSent))
    /\ sbpc = "range" /\ sbRet = "none" => sbSent = sbRecv

\* C32: syncBinlogs never blocks forever on the loader input: once load.Run has
\* failed and the context is cancelled, syncBinlogs returns.
C32_ReturnsAfterCancel ==
    (sbLoad = "failed" /\ sbCtxDone) ~> (sbpc = "done")


-----------------------------------------------------------------------------
(* Claims about the heartbeat's ticks *)

\* C33: a heartbeat tick appends a rollback record only if no WriteBinlog call
\* arrived since the previous tick (or since the heartbeat loop started): a tick
\* that goes on to generate the record finds that none has arrived.
C33_ArrivalSuppressesHeartbeat ==
    [][(hpc = "wait" /\ hpc' = "gen") => ~arrived]_vars


-----------------------------------------------------------------------------
(* Claims about the dispatcher map *)

\* a goroutine that is inside a range over the map, between its keys included
Iterating == dhpc \in {"range", "locked"} \/ dgpc = "range"

\* C34: every lookup, iteration and insertion on the dispatcher map is done
\* holding the server's mutex, so no binlogger is inserted while the heartbeat
\* or the GC loop is iterating the map.
C34_NoInsertWhileIterating ==
    [][dispatcher' # dispatcher => ~Iterating]_vars


-----------------------------------------------------------------------------
(* Claims about AddSource and RemoveSource *)

\* the top of run's loop applies the staged changes
AppliesChanges == mpc = "loop" /\ mpc' = "read"

\* C35: if RemoveSource(id) is called after AddSource(id), then once the merge loop
\* has next applied pending changes the source is not registered, also when the
\* removal is requested before the loop has activated the added source.
C35_RemovedAfterAddNotRegistered ==
    [][AppliesChanges => \A id \in SourceIDs : calls[id] = "removed" => id \notin sources']_vars


-----------------------------------------------------------------------------
(* More claims about FlashSyncer *)

\* how many times item i was sent on e.success
TimesAcked(i) == Cardinality({k \in 1..Len(fsuccess) : fsuccess[k] = i})

\* C36: every item accepted by Sync is sent on the success channel exactly once:
\* no item is sent twice, and a DDL item that Sync accepted has been sent once
\* when Sync returns.
C36_SuccessExactlyOnce ==
    \A i \in 1..Len(freceived) :
        /\ TimesAcked(i) <= 1
        /\ (freceived[i].kind = "ddl" /\ freceived[i].ok) => TimesAcked(i) = 1


-----------------------------------------------------------------------------
(* Claims about the proxy binlogger *)

\* the payloads of the records of a log, in order
LogPayloads(b) == PayloadsOf(logEntities(b, 1))

\* C37: the proxy's background sync writes every master record to the replicate
\* log exactly once and in master order, across repeated Walk passes and retries
\* after errors: the replicate log is a prefix of the master log.
C37_ReplicateIsPrefixOfMaster ==
    LET mp == LogPayloads(xmaster)
        rp == LogPayloads(xreplicate)
    IN  /\ Len(rp) <= Len(mp)
        /\ rp = SubSeq(mp, 1, Len(rp))

\* every master record is in the replicate log
CaughtUp == Range(LogPayloads(xmaster)) \subseteq Range(LogPayloads(xreplicate))

\* C38: Proxy.Close returns once the background sync has replicated every master
\* record; with the replica caught up it does not wait forever, also when the log
\* is non-empty.
C38_CloseReturnsWhenCaughtUp ==
    (xcpc = "loop" /\ CaughtUp /\ xspc # "panic") ~> (xcpc = "returned")

\* C40: for any scheduling of the goroutine started by newProxy, sync never reads
\* the proxy's context before newProxy has assigned it.
C40_SyncReadsAssignedCtx ==
    [][(xspc = "select" /\ xspc' # "select") => xctx # "nil"]_vars


\* C39: once NewMerger has returned, the head-item table m.binlogs is initialised,
\* and run never faults when it records the first item read from a source as
\* that source's head
C39_HeadTableInitialised ==
    /\ mpc # "new" => binlogs.made
    /\ mpc # "panic"

====
